---- MODULE Spec2Model ----
(***************************************************************************)
(* A model of the MySQL MCP server (src/unnamed/part_000): the query       *)
(* validator, the tool dispatcher and the request router, with the         *)
(* overlapping handling of inbound lines, the insight log and its memo,    *)
(* and the scanner that splits the migration script into statements.       *)
(*                                                                         *)
(* Text that the code inspects (SQL queries) is a sequence of one-character*)
(* strings, so that trim, toLowerCase, startsWith and includes are computed*)
(* as the code computes them.  Text that the code only passes on (names,   *)
(* identifiers, insight contents) is a TLA+ string.                        *)
(***************************************************************************)
EXTENDS Integers, Sequences, FiniteSets, TLC

(***************************************************************************)
(* Bounds of the model.                                                    *)
(***************************************************************************)
\* the longest query of the validator's input set, in tokens
MaxTokens == 3
\* the most inbound lines whose handlers are kept at a time (pending or answered)
MaxHandlers == 2
\* the most insights appended in a run
MaxInsights == 2
\* the longest script of the tokenizer's input set, in pieces
MaxPieces == 4
\* the longest script that is scanned iteration by iteration, in pieces
MaxStepped == 3
\* the most statements of a migration script
MaxStatements == 2
\* the most statements of a migration script that is followed by requests
MaxStartupStatements == 1

(***************************************************************************)
(* ErrorCode (enum).                                                       *)
(***************************************************************************)
ParseError == -32700
InvalidRequest == -32600
MethodNotFound == -32601
InvalidParams == -32602
InternalError == -32603

(***************************************************************************)
(* JavaScript string operations on character sequences.                    *)
(***************************************************************************)
UpperCase == <<"A", "B", "C", "D", "E", "F", "G", "H", "I", "J", "K", "L", "M", "N", "O", "P", "Q", "R", "S", "T", "U", "V", "W", "X", "Y", "Z">>
LowerCase == <<"a", "b", "c", "d", "e", "f", "g", "h", "i", "j", "k", "l", "m", "n", "o", "p", "q", "r", "s", "t", "u", "v", "w", "x", "y", "z">>

\* String.prototype.toLowerCase on one character
lowerChar(c) ==
  IF \E i \in 1..Len(UpperCase) : UpperCase[i] = c
  THEN LowerCase[CHOOSE i \in 1..Len(UpperCase) : UpperCase[i] = c]
  ELSE c

\* String.prototype.toLowerCase
toLowerCase(s) == [i \in 1..Len(s) |-> lowerChar(s[i])]

\* the white space String.prototype.trim removes (of the characters used here)
isWhiteSpace(c) == c \in {" ", "\n", "\t", "\r"}

\* String.prototype.trim
trim(s) ==
  LET keep == {i \in 1..Len(s) : ~isWhiteSpace(s[i])}
  IN IF keep = {} THEN <<>>
     ELSE LET first == CHOOSE i \in keep : \A j \in keep : i <= j
              last == CHOOSE i \in keep : \A j \in keep : j <= i
          IN SubSeq(s, first, last)

\* String.prototype.startsWith
startsWith(s, p) == Len(p) <= Len(s) /\ SubSeq(s, 1, Len(p)) = p

\* String.prototype.includes
includes(s, p) ==
  \E i \in 1..(Len(s) - Len(p) + 1) : SubSeq(s, i, i + Len(p) - 1) = p

(***************************************************************************)
(* JavaScript values.  A value the code inspects as text carries its       *)
(* characters in s; every other value has s = <<>> .                       *)
(***************************************************************************)
Str(s) == [ty |-> "string", s |-> s]
Undefined == [ty |-> "undefined", s |-> <<>>]
Null == [ty |-> "null", s |-> <<>>]
\* a number: truthy unless it is 0
Num(digits) == [ty |-> "number", s |-> digits]

\* !v
falsy(v) ==
  \/ v.ty \in {"undefined", "null"}
  \/ v.ty = "string" /\ v.s = <<>>
  \/ v.ty = "number" /\ v.s = <<"0">>

(***************************************************************************)
(* The literals of validateSqlQuery.                                       *)
(***************************************************************************)
kwSelect == <<"s", "e", "l", "e", "c", "t">>
kwInsertSp == <<"i", "n", "s", "e", "r", "t", " ">>
kwUpdateSp == <<"u", "p", "d", "a", "t", "e", " ">>
kwDeleteSp == <<"d", "e", "l", "e", "t", "e", " ">>
kwDropSp == <<"d", "r", "o", "p", " ">>
kwAlterSp == <<"a", "l", "t", "e", "r", " ">>
kwCreateSp == <<"c", "r", "e", "a", "t", "e", " ">>
kwCreateTable == <<"c", "r", "e", "a", "t", "e", " ", "t", "a", "b", "l", "e">>

\* a thrown McpError, and a normal return
McpError(code, message) == [ok |-> FALSE, code |-> code, message |-> message]
Returns == [ok |-> TRUE, code |-> 0, message |-> ""]

ExpectedTypes == {"select", "write", "create_table"}

\* mutant of validateSelect: the check for 'alter ' is missing
validateSelectNoAlter(trimmedQuery) ==
  IF ~startsWith(trimmedQuery, kwSelect)
  THEN McpError(InvalidParams, "Only SELECT queries are allowed with read_query")
  ELSE IF \/ includes(trimmedQuery, kwDropSp)
          \/ includes(trimmedQuery, kwDeleteSp)
          \/ includes(trimmedQuery, kwUpdateSp)
          \/ includes(trimmedQuery, kwInsertSp)
          \/ includes(trimmedQuery, kwCreateSp)
  THEN McpError(InvalidParams, "The query contains potentially harmful operations. Only SELECT statements are allowed with read_query.")
  ELSE Returns

\* case 'select' of validateSqlQuery
validateSelectBareUpdate(trimmedQuery) ==
  IF ~startsWith(trimmedQuery, kwSelect)
  THEN McpError(InvalidParams, "Only SELECT queries are allowed with read_query")
  ELSE IF \/ includes(trimmedQuery, kwDropSp)
          \/ includes(trimmedQuery, kwDeleteSp)
          \/ includes(trimmedQuery, <<"u", "p", "d", "a", "t", "e">>)
          \/ includes(trimmedQuery, kwInsertSp)
          \/ includes(trimmedQuery, kwAlterSp)
          \/ includes(trimmedQuery, kwCreateSp)
  THEN McpError(InvalidParams, "The query contains potentially harmful operations. Only SELECT statements are allowed with read_query.")
  ELSE Returns
validateSelect(trimmedQuery) ==
  IF ~startsWith(trimmedQuery, kwSelect)
  THEN McpError(InvalidParams, "Only SELECT queries are allowed with read_query")
  ELSE IF \/ includes(trimmedQuery, kwDropSp)
          \/ includes(trimmedQuery, kwDeleteSp)
          \/ includes(trimmedQuery, kwUpdateSp)
          \/ includes(trimmedQuery, kwInsertSp)
          \/ includes(trimmedQuery, kwAlterSp)
          \/ includes(trimmedQuery, kwCreateSp)
  THEN McpError(InvalidParams, "The query contains potentially harmful operations. Only SELECT statements are allowed with read_query.")
  ELSE Returns

\* mutant of validateWrite: the check for 'drop ' is missing
validateWriteNoDrop(trimmedQuery) ==
  IF startsWith(trimmedQuery, kwSelect)
  THEN McpError(InvalidParams, "SELECT queries are not allowed with write_query, use read_query instead")
  ELSE IF /\ ~startsWith(trimmedQuery, kwInsertSp)
          /\ ~startsWith(trimmedQuery, kwUpdateSp)
          /\ ~startsWith(trimmedQuery, kwDeleteSp)
  THEN McpError(InvalidParams, "Only INSERT, UPDATE, and DELETE operations are allowed with write_query")
  ELSE IF \/ includes(trimmedQuery, kwAlterSp)
          \/ includes(trimmedQuery, kwCreateSp)
  THEN McpError(InvalidParams, "The query contains potentially harmful operations. Only INSERT, UPDATE, and DELETE are allowed with write_query.")
  ELSE Returns

\* case 'write' of validateSqlQuery
validateWrite(trimmedQuery) ==
  IF startsWith(trimmedQuery, kwSelect)
  THEN McpError(InvalidParams, "SELECT queries are not allowed with write_query, use read_query instead")
  ELSE IF /\ ~startsWith(trimmedQuery, kwInsertSp)
          /\ ~startsWith(trimmedQuery, kwUpdateSp)
          /\ ~startsWith(trimmedQuery, kwDeleteSp)
  THEN McpError(InvalidParams, "Only INSERT, UPDATE, and DELETE operations are allowed with write_query")
  ELSE IF \/ includes(trimmedQuery, kwDropSp)
          \/ includes(trimmedQuery, kwAlterSp)
          \/ includes(trimmedQuery, kwCreateSp)
  THEN McpError(InvalidParams, "The query contains potentially harmful operations. Only INSERT, UPDATE, and DELETE are allowed with write_query.")
  ELSE Returns

\* mutant of validateCreateTable: any 'create ' statement passes
validateCreateAnything(trimmedQuery) ==
  IF ~startsWith(trimmedQuery, kwCreateSp)
  THEN McpError(InvalidParams, "Only CREATE TABLE statements are allowed with create_table")
  ELSE Returns

\* case 'create_table' of validateSqlQuery
validateCreateTable(trimmedQuery) ==
  IF ~startsWith(trimmedQuery, kwCreateTable)
  THEN McpError(InvalidParams, "Only CREATE TABLE statements are allowed with create_table")
  ELSE Returns

\* validateSqlQuery(query, expectedType): what it throws, or that it returns
validateSqlQuery(query, expectedType) ==
  IF falsy(query) \/ query.ty # "string"
  THEN McpError(InvalidParams, "Query must be a non-empty string")
  ELSE LET trimmedQuery == toLowerCase(trim(query.s))
       IN CASE expectedType = "select" -> validateSelect(trimmedQuery)
            [] expectedType = "write" -> validateWrite(trimmedQuery)
            [] expectedType = "create_table" -> validateCreateTable(trimmedQuery)

(***************************************************************************)
(* The validator's inputs: every concatenation of at most MaxTokens tokens,*)
(* the queries the documentation gives as examples (and one more), and     *)
(* values that are no string.                                              *)
(***************************************************************************)
tokSelect == <<"S", "e", "l", "e", "c", "t">>
tokInsert == <<"i", "n", "s", "e", "r", "t">>
tokUpdate == <<"U", "P", "D", "A", "T", "E">>
tokDelete == <<"d", "e", "l", "e", "t", "e">>
tokDrop == <<"d", "r", "o", "p">>
tokAlter == <<"A", "l", "t", "e", "r">>
tokCreate == <<"c", "r", "e", "a", "t", "e">>
tokTable == <<"T", "A", "B", "L", "E">>
\* the three write keywords occur bare and followed by a space, the other
\* keywords of the containment checks followed by a space
Tokens ==
  {tokSelect, tokInsert, tokUpdate, tokDelete, tokTable, <<" ">>, <<"s">>}
    \cup {w \o <<" ">> : w \in {tokInsert, tokUpdate, tokDelete, tokDrop, tokAlter, tokCreate}}

qSelectAllFromT == <<"S", "E", "L", "E", "C", "T", " ", "*", " ", "F", "R", "O", "M", " ", "t">>
qSelectThenDrop == <<"s", "e", "l", "e", "c", "t", " ", "*", " ", "f", "r", "o", "m", " ", "t", ";", " ", "d", "r", "o", "p", " ", "t", "a", "b", "l", "e", " ", "t">>
qUpdateT == <<"U", "P", "D", "A", "T", "E", " ", "t", " ", "S", "E", "T", " ", "x", "=", "1">>
qSelect1 == <<"S", "E", "L", "E", "C", "T", " ", "1">>
qCreateTableT == <<"C", "R", "E", "A", "T", "E", " ", "T", "A", "B", "L", "E", " ", "t", " ", "(", "i", "d", " ", "I", "N", "T", ")">>
qAlterTableT == <<"A", "L", "T", "E", "R", " ", "T", "A", "B", "L", "E", " ", "t", " ", "A", "D", "D", " ", "c", " ", "I", "N", "T">>
qDeleteFromT == <<"D", "E", "L", "E", "T", "E", " ", "F", "R", "O", "M", " ", "t">>
RECURSIVE TokenQueries(_)
TokenQueries(n) ==
  IF n = 0 THEN {<<>>}
  ELSE LET shorter == TokenQueries(n - 1)
       IN shorter \cup {q \o t : q \in shorter, t \in Tokens}

qCreateThenDrop == <<"c", "r", "e", "a", "t", "e", " ", "t", "a", "b", "l", "e", " ", "t", ";", " ", "d", "r", "o", "p", " ", "t", "a", "b", "l", "e", " ", "u">>
qSelectFromUpdates ==
  <<"S", "E", "L", "E", "C", "T", " ", "*", " ", "F", "R", "O", "M", " ",
    "u", "p", "d", "a", "t", "e", "s">>
qSelectUpdatesFromT ==
  <<"S", "E", "L", "E", "C", "T", " ", "u", "p", "d", "a", "t", "e", "s", " ",
    "F", "R", "O", "M", " ", "t">>
qSelectLastUpdateFromT ==
  <<"S", "E", "L", "E", "C", "T", " ", "l", "a", "s", "t", "_", "u", "p", "d", "a", "t", "e", " ",
    "F", "R", "O", "M", " ", "t">>
ExampleQueries ==
  {qSelectAllFromT, qSelectThenDrop, qUpdateT, qSelect1, qCreateTableT,
   qAlterTableT, qDeleteFromT, qCreateThenDrop, qSelectFromUpdates, qSelectUpdatesFromT,
   qSelectLastUpdateFromT}

(***************************************************************************)
(* Values the code only passes on or compares whole: v is their text.      *)
(***************************************************************************)
AStr(v) == [ty |-> "string", v |-> v]
ANum(v) == [ty |-> "number", v |-> v]
AUndefined == [ty |-> "undefined", v |-> ""]
ANull == [ty |-> "null", v |-> ""]

\* `${v}` in a template literal
template(a) == IF a.ty \in {"undefined", "null"} THEN a.ty ELSE a.v

(***************************************************************************)
(* McpRequest.  A parsed line is any JSON value: ty is its type, and an    *)
(* object carries id, method and params.  params and params.arguments are  *)
(* JSON values too; the properties the code reads are undefined where the  *)
(* value has none.                                                         *)
(***************************************************************************)
Arguments(ty, query, table_name, insight) ==
  [ty |-> ty, query |-> query, table_name |-> table_name, insight |-> insight]
NoArguments(ty) == Arguments(ty, Undefined, AUndefined, AUndefined)

Params(ty, uri, name, arguments) ==
  [ty |-> ty, uri |-> uri, name |-> name, arguments |-> arguments]
NoParams(ty) == Params(ty, AUndefined, AUndefined, NoArguments("undefined"))

McpRequest(id, method, params) ==
  [ty |-> "object", id |-> id, method |-> method, params |-> params]
NonObject(ty) ==
  [ty |-> ty, id |-> AUndefined, method |-> AUndefined, params |-> NoParams("undefined")]

\* an inbound line: its text stands for what JSON.parse makes of it
JsonLine(value) == [text |-> "json", value |-> value]
GarbageLine == [text |-> "{not json", value |-> NonObject("undefined")]
BlankLine == [text |-> "", value |-> NonObject("undefined")]

\* JSON.parse(line): a SyntaxError, or the value
JSONparse(line) ==
  IF line.text = "json"
  THEN [threw |-> FALSE, message |-> "", value |-> line.value]
  ELSE [threw |-> TRUE, message |-> "Unexpected token in JSON", value |-> line.value]

\* reading a property of v throws a TypeError
noProperties(v) == v.ty \in {"undefined", "null"}
TypeErrorMessage(v) == "Cannot read properties of " \o v.ty

(***************************************************************************)
(* McpResponse: id, and the keys result and error, each present or not.    *)
(***************************************************************************)
NoText == [fmt |-> "", arg |-> "", num |-> 0, memo |-> <<>>]
Text(fmt, arg) == [fmt |-> fmt, arg |-> arg, num |-> 0, memo |-> <<>>]
NoResult == [present |-> FALSE, key |-> "", text |-> NoText, tools |-> <<>>, isError |-> FALSE]
NoErrorKey == [present |-> FALSE, code |-> 0, message |-> ""]

ResultResponse(id, key, text) ==
  [id |-> id,
   result |-> [present |-> TRUE, key |-> key, text |-> text, tools |-> <<>>, isError |-> FALSE],
   error |-> NoErrorKey]

ErrorResponse(id, code, message) ==
  [id |-> id, result |-> NoResult,
   error |-> [present |-> TRUE, code |-> code, message |-> message]]

\* mutant of IsErrorResponse: the failure is reported under both keys
IsErrorResponseWithErrorKey(id, message) ==
  [id |-> id,
   result |-> [present |-> TRUE, key |-> "content", text |-> Text("Error: ", message),
               tools |-> <<>>, isError |-> TRUE],
   error |-> [present |-> TRUE, code |-> InternalError, message |-> message]]

\* the result handleToolCall returns for an error that is no McpError
IsErrorResponse(id, message) ==
  [id |-> id,
   result |-> [present |-> TRUE, key |-> "content", text |-> Text("Error: ", message),
               tools |-> <<>>, isError |-> TRUE],
   error |-> NoErrorKey]

\* the tools of mcp.listTools, by name
ToolNamesWithoutInsight ==
  <<"read_query", "write_query", "create_table", "list_tables", "describe_table">>
ToolNames ==
  <<"read_query", "write_query", "create_table", "list_tables", "describe_table",
    "append_insight">>

(***************************************************************************)
(* What a synchronous run of a handler ends in: a returned response (with  *)
(* the insight it appended, if any), a thrown error, or a statement handed *)
(* to the pool whose settlement the handler awaits.                        *)
(***************************************************************************)
NoStatement == [tool |-> "", sql |-> <<>>, param |-> AUndefined]
Statement(tool, sql, param) == [tool |-> tool, sql |-> sql, param |-> param]

Return(response) ==
  [does |-> "return", response |-> response, mcp |-> FALSE, code |-> 0, message |-> "",
   statement |-> NoStatement, appends |-> FALSE, content |-> AUndefined]
ReturnAppending(response, content) ==
  [Return(response) EXCEPT !.appends = TRUE, !.content = content]
Throw(code, message) ==
  [does |-> "throw", response |-> ErrorResponse(AUndefined, 0, ""), mcp |-> TRUE,
   code |-> code, message |-> message,
   statement |-> NoStatement, appends |-> FALSE, content |-> AUndefined]
ThrowError(message) ==
  [Throw(0, message) EXCEPT !.mcp = FALSE]
AwaitQuery(statement) ==
  [does |-> "query", response |-> ErrorResponse(AUndefined, 0, ""), mcp |-> FALSE,
   code |-> 0, message |-> "",
   statement |-> statement, appends |-> FALSE, content |-> AUndefined]

(***************************************************************************)
(* handleToolCall.                                                         *)
(***************************************************************************)
callerDatabase == "argv.database"

\* !request.params.arguments || typeof request.params.arguments !== 'object'
badArguments(arguments) == arguments.ty \in {"undefined", "null"} \/ arguments.ty # "object"

\* mutant of queryToolCase: the query goes to the pool without validation
queryToolCaseUnvalidated(request, tool, expectedType, property) ==
  LET arguments == request.params.arguments
  IN IF badArguments(arguments)
     THEN Throw(InvalidParams,
                "Invalid arguments: Expected an object with a " \o property \o " property")
     ELSE AwaitQuery(Statement(tool, arguments.query.s, AUndefined))

\* cases 'read_query', 'write_query', 'create_table', up to the await
queryToolCase(request, tool, expectedType, property) ==
  LET arguments == request.params.arguments
  IN IF badArguments(arguments)
     THEN Throw(InvalidParams,
                "Invalid arguments: Expected an object with a " \o property \o " property")
     ELSE LET valid == validateSqlQuery(arguments.query, expectedType)
          IN IF ~valid.ok THEN Throw(valid.code, valid.message)
             ELSE AwaitQuery(Statement(tool, arguments.query.s, AUndefined))

\* case 'list_tables', up to the await
listTablesCase(request) ==
  AwaitQuery(Statement("list_tables", <<>>, AStr(callerDatabase)))

\* case 'describe_table', up to the await
describeTableCase(request) ==
  LET arguments == request.params.arguments
  IN IF noProperties(arguments) THEN ThrowError(TypeErrorMessage(arguments))
     ELSE AwaitQuery(Statement("describe_table", <<>>, arguments.table_name))

\* an entry of MySQLServer.insights (its timestamp is not modelled)
Insight(id, content) == [id |-> id, content |-> content]

\* mutant of incremented: the counter is left as it is
notIncremented(counter) == counter

\* this.insightCounter++
countedDown(counter) == counter - 1
incremented(counter) == counter + 1

\* mutant of newInsight: identifiers count from 0
newInsightZeroBased(counter, content) == Insight(counter - 1, content)

\* const newInsight = {id: this.insightCounter, content: insight, ...}, with
\* the counter as it is after the increment
newInsight(counter, content) == Insight(counter, content)

\* mutant of appendInsightCase: the confirmation names the counter as it was
\* before the increment
appendInsightCaseStale(request, counter) ==
  LET arguments == request.params.arguments
  IN IF noProperties(arguments) THEN ThrowError(TypeErrorMessage(arguments))
     ELSE ReturnAppending(
            ResultResponse(request.id, "content",
              [fmt |-> "Insight #", arg |-> " added to memo", num |-> counter,
               memo |-> <<>>]),
            arguments.insight)

\* case 'append_insight': the response it returns; the increment and the push
\* are applied by the step that runs it
appendInsightCase(request, counter) ==
  LET arguments == request.params.arguments
  IN IF noProperties(arguments) THEN ThrowError(TypeErrorMessage(arguments))
     ELSE ReturnAppending(
            ResultResponse(request.id, "content",
              [fmt |-> "Insight #", arg |-> " added to memo",
               num |-> newInsight(incremented(counter), arguments.insight).id,
               memo |-> <<>>]),
            arguments.insight)

\* the catch of handleToolCall: an McpError goes on, any other error becomes
\* a result with isError
toolCallCatch(request, outcome) ==
  IF outcome.does = "throw" /\ ~outcome.mcp
  THEN Return(IsErrorResponse(request.id, outcome.message))
  ELSE outcome

\* handleToolCall(request), up to its first await
handleToolCall(request, counter) ==
  toolCallCatch(request,
    IF noProperties(request.params) THEN ThrowError(TypeErrorMessage(request.params))
    ELSE LET name == request.params.name
         IN CASE name = AStr("read_query") ->
                   queryToolCase(request, "read_query", "select", "query")
              [] name = AStr("write_query") ->
                   queryToolCase(request, "write_query", "write", "query")
              [] name = AStr("create_table") ->
                   queryToolCase(request, "create_table", "create_table", "query")
              [] name = AStr("list_tables") -> listTablesCase(request)
              [] name = AStr("describe_table") -> describeTableCase(request)
              [] name = AStr("append_insight") -> appendInsightCase(request, counter)
              [] OTHER -> Throw(MethodNotFound, "Unknown tool: " \o template(name)))

\* what the pool answers: rows, or an error with a message
Fulfilled == [ok |-> TRUE, message |-> ""]
Rejected(message) == [ok |-> FALSE, message |-> message]

\* handleToolCall after its awaited pool.query settled
toolCallResume(request, statement, settled) ==
  toolCallCatch(request,
    CASE statement.tool = "read_query" ->
           IF settled.ok
           THEN Return(ResultResponse(request.id, "content", Text("JSON.stringify(rows)", "")))
           ELSE Throw(InternalError, "Database error: " \o settled.message)
      [] statement.tool = "write_query" ->
           IF settled.ok
           THEN Return(ResultResponse(request.id, "content", Text("affected_rows", "")))
           ELSE Throw(InternalError, "Database error: " \o settled.message)
      [] statement.tool = "create_table" ->
           IF settled.ok
           THEN Return(ResultResponse(request.id, "content",
                                      Text("Table created successfully", "")))
           ELSE Throw(InternalError, "Database error: " \o settled.message)
      [] statement.tool = "list_tables" ->
           IF settled.ok
           THEN Return(ResultResponse(request.id, "content", Text("JSON.stringify(tables)", "")))
           ELSE ThrowError(settled.message)
      [] statement.tool = "describe_table" ->
           IF settled.ok
           THEN Return(ResultResponse(request.id, "content", Text("JSON.stringify(rows)", "")))
           ELSE ThrowError(settled.message))

(***************************************************************************)
(* handleRequest.                                                          *)
(***************************************************************************)
insightsUri == "memo://insights"

\* mutant of memoText: the insights are rendered newest first
memoTextNewestFirst(log) ==
  [fmt |-> "# Business Insights Memo",
   arg |-> IF Len(log) = 0 THEN "No insights have been discovered yet." ELSE "",
   num |-> 0,
   memo |-> [i \in 1..Len(log) |->
               [heading |-> log[Len(log) + 1 - i].id, body |-> log[Len(log) + 1 - i].content]]]

\* mutant of memoText: only the latest insight is rendered
memoTextLatestOnly(log) ==
  [fmt |-> "# Business Insights Memo",
   arg |-> IF Len(log) = 0 THEN "No insights have been discovered yet." ELSE "",
   num |-> 0,
   memo |-> [i \in 1..(IF Len(log) = 0 THEN 0 ELSE 1) |->
               [heading |-> log[Len(log)].id, body |-> log[Len(log)].content]]]

\* the memo text of mcp.readResource: the title, then the placeholder line
\* or a heading and a body for each insight as forEach visits them
memoText(log) ==
  [fmt |-> "# Business Insights Memo",
   arg |-> IF Len(log) = 0 THEN "No insights have been discovered yet." ELSE "",
   num |-> 0,
   memo |-> [i \in 1..Len(log) |-> [heading |-> log[i].id, body |-> log[i].content]]]

\* case 'mcp.listTools'
listToolsResponse(request) ==
  [id |-> request.id,
   result |-> [present |-> TRUE, key |-> "tools", text |-> NoText, tools |-> ToolNames,
               isError |-> FALSE],
   error |-> NoErrorKey]

\* case 'mcp.readResource'
readResourceCase(request, log) ==
  IF noProperties(request.params) THEN ThrowError(TypeErrorMessage(request.params))
  ELSE IF request.params.uri = AStr(insightsUri)
  THEN Return(ResultResponse(request.id, "contents", memoText(log)))
  ELSE Throw(InvalidRequest, "Unknown resource: " \o template(request.params.uri))

\* the catch of handleRequest: every error becomes an error response, unless
\* reading request.id throws in turn
requestCatch(request, outcome) ==
  IF outcome.does # "throw" THEN outcome
  ELSE IF noProperties(request) THEN ThrowError(TypeErrorMessage(request))
  ELSE Return(ErrorResponse(request.id,
                            IF outcome.mcp THEN outcome.code ELSE InternalError,
                            outcome.message))

\* handleRequest(request), up to its first await
handleRequest(request, log, counter) ==
  requestCatch(request,
    IF noProperties(request) THEN ThrowError(TypeErrorMessage(request))
    ELSE LET method == request.method
         IN CASE method = AStr("mcp.listTools") -> Return(listToolsResponse(request))
              [] method = AStr("mcp.listResources") ->
                   Return(ResultResponse(request.id, "resources", Text(insightsUri, "")))
              [] method = AStr("mcp.listResourceTemplates") ->
                   Return(ResultResponse(request.id, "resourceTemplates", NoText))
              [] method = AStr("mcp.readResource") -> readResourceCase(request, log)
              [] method = AStr("mcp.callTool") -> handleToolCall(request, counter)
              [] OTHER -> Throw(MethodNotFound, "Unknown method: " \o template(method)))

\* handleRequest after the pool.query that handleToolCall awaited settled
requestResume(request, statement, settled) ==
  requestCatch(request, toolCallResume(request, statement, settled))

(***************************************************************************)
(* The 'line' callback of run().                                           *)
(***************************************************************************)
\* mutant of parseErrorResponse: the error is classified InvalidRequest
parseErrorResponseAsInvalidRequest(message) ==
  ErrorResponse(AStr("unknown"), InvalidRequest, message)

\* the response its catch block writes
parseErrorResponse(message) == ErrorResponse(AStr("unknown"), ParseError, message)

\* the response it writes once handleRequest settled: the response returned,
\* or the catch block's if handleRequest rejected
lineResponse(outcome) ==
  IF outcome.does = "return" THEN outcome.response
  ELSE parseErrorResponse(outcome.message)

(***************************************************************************)
(* runMigrations: the scanner that splits setup.sql into statements.  A    *)
(* character of the script is kept with the position it was read from, so  *)
(* that an emitted statement tells which characters of the script it is    *)
(* made of; textOf gives the string the code holds.                        *)
(***************************************************************************)
Ch(char, at) == [char |-> char, at |-> at]
textOf(marked) == [k \in 1..Len(marked) |-> marked[k].char]

\* String.prototype.trim on marked characters
notTrimmed(marked) == marked
trimMarked(marked) ==
  LET keep == {k \in 1..Len(marked) : ~isWhiteSpace(marked[k].char)}
  IN IF keep = {} THEN <<>>
     ELSE LET first == CHOOSE k \in keep : \A j \in keep : k <= j
              last == CHOOSE k \in keep : \A j \in keep : j <= k
          IN SubSeq(marked, first, last)

\* the variables of the scanner between two iterations; i counts from 1
Scanner(i, statements, currentStatement, inComment, inString, stringDelimiter) ==
  [i |-> i, statements |-> statements, currentStatement |-> currentStatement,
   inComment |-> inComment, inString |-> inString, stringDelimiter |-> stringDelimiter]

\* setupSql[i + 1], or '' behind the last character
nextCharAt(setupSql, i) == IF i < Len(setupSql) THEN setupSql[i + 1] ELSE ""

\* the backtick character, which a TLA+ string cannot hold
backtick == "BACKTICK"

\* mutant of isQuote: the backtick opens no literal
isQuoteNoBacktick(char) == char \in {"'", "\""}

\* char === "'" || char === '"' || char === the backtick
isQuote(char) == char \in {"'", "\"", backtick}

\* "Handle string literals"
anyQuoteCloses(st, char) ==
  IF ~st.inComment /\ isQuote(char)
  THEN IF ~st.inString
       THEN [st EXCEPT !.inString = TRUE, !.stringDelimiter = char]
       ELSE [st EXCEPT !.inString = FALSE]
  ELSE st
quoteOpensInComment(st, char) ==
  IF isQuote(char)
  THEN IF ~st.inString
       THEN [st EXCEPT !.inString = TRUE, !.stringDelimiter = char]
       ELSE IF char = st.stringDelimiter
       THEN [st EXCEPT !.inString = FALSE]
       ELSE st
  ELSE st
handleStringLiterals(st, char) ==
  IF ~st.inComment /\ isQuote(char)
  THEN IF ~st.inString
       THEN [st EXCEPT !.inString = TRUE, !.stringDelimiter = char]
       ELSE IF char = st.stringDelimiter
       THEN [st EXCEPT !.inString = FALSE]
       ELSE st
  ELSE st

\* mutant of startsBlockComment: no block comment is recognized
startsNoBlockComment(char, nextChar, inComment) == FALSE

\* "Start of multi-line comment"
startsBlockComment(char, nextChar, inComment) ==
  char = "/" /\ nextChar = "*" /\ ~inComment

\* "End of multi-line comment"
endsBlockComment(char, nextChar, inComment) ==
  char = "*" /\ nextChar = "/" /\ inComment

\* "Single line comment"
startsLineComment(char, nextChar, inComment) ==
  char = "-" /\ nextChar = "-" /\ ~inComment

\* while (i < setupSql.length && setupSql[i] !== '\n') i++
stayAtComment(setupSql, i) == i - 1
RECURSIVE skipToEndOfLine(_, _)
skipToEndOfLine(setupSql, i) ==
  IF i <= Len(setupSql) /\ setupSql[i] # "\n"
  THEN skipToEndOfLine(setupSql, i + 1)
  ELSE i

\* statements.push(trimmed) if trimmed.length > 0
pushTrimmed(statements, currentStatement) ==
  IF Len(trimMarked(currentStatement)) > 0
  THEN Append(statements, trimMarked(currentStatement))
  ELSE statements

\* currentStatement += char, of every character outside a comment, the ;
\* that ends the statement included
addCharUnlessSemicolon(currentStatement, char, i) ==
  IF char = ";" THEN currentStatement ELSE Append(currentStatement, Ch(char, i))
addChar(currentStatement, char, i) == Append(currentStatement, Ch(char, i))

\* "Handle comments": if (!inString)
commentsAlsoInString(inString) == TRUE
commentsHandled(inString) == ~inString

\* one iteration of the for loop, with the i++ of the loop
iteration(setupSql, before) ==
  LET char == setupSql[before.i]
      nextChar == nextCharAt(setupSql, before.i)
      st == handleStringLiterals(before, char)
  IN IF commentsHandled(st.inString) /\ startsBlockComment(char, nextChar, st.inComment)
     THEN [st EXCEPT !.inComment = TRUE, !.i = @ + 2]
     ELSE IF commentsHandled(st.inString) /\ endsBlockComment(char, nextChar, st.inComment)
     THEN [st EXCEPT !.inComment = FALSE, !.i = @ + 2]
     ELSE IF commentsHandled(st.inString) /\ startsLineComment(char, nextChar, st.inComment)
     THEN [st EXCEPT !.i = skipToEndOfLine(setupSql, @) + 1]
     ELSE IF st.inComment
     THEN [st EXCEPT !.i = @ + 1]
     ELSE IF char = ";" /\ ~st.inString
     THEN [st EXCEPT !.statements = pushTrimmed(@, addChar(st.currentStatement, char, st.i)),
                     !.currentStatement = <<>>,
                     !.i = @ + 1]
     ELSE [st EXCEPT !.currentStatement = addChar(@, char, st.i),
                     !.i = @ + 1]

\* the for loop
RECURSIVE scan(_, _)
scan(setupSql, st) ==
  IF st.i <= Len(setupSql) THEN scan(setupSql, iteration(setupSql, st)) ELSE st

\* "Add the last statement if it doesn't end with a semicolon": what is
\* left in currentStatement after the loop is trimmed, and pushed if not empty
lastDropped(statements, currentStatement) == statements
pushLast(statements, currentStatement) ==
  IF Len(trimMarked(currentStatement)) > 0
  THEN Append(statements, trimMarked(currentStatement))
  ELSE statements

\* the statements of setupSql: the loop, then the last statement
splitStatements(setupSql) ==
  LET st == scan(setupSql, Scanner(1, <<>>, <<>>, FALSE, FALSE, ""))
  IN pushLast(st.statements, st.currentStatement)

(***************************************************************************)
(* The scripts the scanner is run on: every script of at most MaxPieces    *)
(* pieces, and the examples.                                               *)
(***************************************************************************)
Pieces ==
  {<<"'">>, <<"\"">>, <<backtick>>, <<";">>, <<"-">>, <<"/">>, <<"*">>, <<"\n">>, <<"a">>,
   <<" ">>, <<"-", "-">>, <<"/", "*">>, <<"*", "/">>}

RECURSIVE PieceScripts(_)
PieceScripts(n) ==
  IF n = 0 THEN {<<>>}
  ELSE LET shorter == PieceScripts(n - 1)
       IN shorter \cup {script \o piece : script \in shorter, piece \in Pieces}

sBlockComment == <<"/", "*", " ", "a", ";", " ", "b", " ", "*", "/", " ", "S", "E", "L", "E", "C", "T", " ", "1", ";">>
sQuotedSemicolon == <<"S", "E", "L", "E", "C", "T", " ", "'", ";", "'", " ", ";">>
sLineComment == <<"-", "-", " ", "c", "o", "m", "m", "e", "n", "t", "\n", "S", "E", "L", "E", "C", "T", " ", "1", ";">>
\* a line comment with an apostrophe, as in setup.sql, and two statements
sApostrophe ==
  <<"-", "-", " ", "d", "o", "e", "s", "n", "'", "t", "\n",
    "S", "E", "L", "E", "C", "T", " ", "1", ";", "\n", "S", "E", "L", "E", "C", "T", " ", "2", ";">>
ExampleScripts == {sBlockComment, sQuotedSemicolon, sLineComment, sApostrophe}

(***************************************************************************)
(* runMigrations: the execution of the statements.  A statement is skipped *)
(* or handed to pool.query; the scripts that are migrated are made of the  *)
(* statements below, each closed by a ; and a new line.                    *)
(***************************************************************************)
\* statement.toLowerCase().includes('create database') ||
\* statement.toLowerCase().includes('use ')
isSkipped(statement) ==
  \/ includes(toLowerCase(statement),
              <<"c", "r", "e", "a", "t", "e", " ", "d", "a", "t", "a", "b", "a", "s", "e">>)
  \/ includes(toLowerCase(statement), <<"u", "s", "e", " ">>)

\* the catch of the statement's try: the error is logged, "Continue with
\* other migrations even if one fails"; what runMigrations then has to throw
statementRethrown(thrown, error) == error
statementCatch(thrown, error) == thrown

sUse == <<"U", "S", "E", " ", "d">>
sCreateDatabase == <<"C", "r", "e", "a", "t", "e", " ", "D", "a", "t", "a", "b", "a", "s", "e", " ", "d">>
sSelect == <<"S", "E", "L", "E", "C", "T", " ", "1">>
sCreateTable ==
  <<"C", "R", "E", "A", "T", "E", " ", "T", "A", "B", "L", "E", " ",
    "h", "o", "u", "s", "e", " ", "(", "a", " ", "I", "N", "T", ")">>
MigrationStatements == {sUse, sCreateDatabase, sSelect, sCreateTable}

RECURSIVE MigrationScripts(_)
MigrationScripts(n) ==
  IF n = 0 THEN {<<>>}
  ELSE LET shorter == MigrationScripts(n - 1)
       IN shorter \cup {script \o statement \o <<";", "\n">> :
                          script \in shorter, statement \in MigrationStatements}

\* what initializeDatabase throws
ConnectionFailed == "MySQL connection failed"
DatabaseCheckFailed == "Database check/creation failed"
PoolCreationFailed == "Connection pool creation failed"
ReadFileFailed == "readFileSync"

(***************************************************************************)
(* The inbound lines of a run are drawn from one of these families.        *)
(***************************************************************************)
Id1 == ANum("1")
Id2 == ANum("2")
IdUnknown == AStr("unknown")

Call(id, method, params) == JsonLine(McpRequest(id, AStr(method), params))
CallTool(id, name, arguments) ==
  Call(id, "mcp.callTool", Params("object", AUndefined, name, arguments))
QueryArguments(query) == Arguments("object", query, AUndefined, AUndefined)

\* lines that exercise the router
RouterLines ==
  {GarbageLine, BlankLine, JsonLine(NonObject("null")), JsonLine(NonObject("number")),
   JsonLine(McpRequest(Id1, AUndefined, NoParams("undefined"))),
   Call(Id1, "mcp.unknown", NoParams("object")),
   Call(Id1, "mcp.listTools", NoParams("undefined")),
   Call(AUndefined, "mcp.listTools", NoParams("object")),
   Call(Id2, "mcp.listResources", NoParams("object")),
   Call(IdUnknown, "mcp.listResourceTemplates", NoParams("object")),
   Call(Id1, "mcp.readResource", Params("object", AStr(insightsUri), AUndefined, NoArguments("undefined"))),
   Call(Id2, "mcp.readResource", Params("object", AStr("memo://unknown"), AUndefined, NoArguments("undefined"))),
   Call(Id1, "mcp.readResource", NoParams("object")),
   Call(Id2, "mcp.readResource", NoParams("undefined")),
   Call(Id1, "mcp.callTool", NoParams("undefined")),
   Call(Id2, "mcp.callTool", NoParams("null")),
   Call(Id1, "mcp.callTool", NoParams("object")),
   CallTool(Id2, AStr("drop_table"), NoArguments("object")),
   CallTool(IdUnknown, AStr("list_tables"), NoArguments("undefined"))}

\* the argument shapes of a tool that takes a query, with the given queries
QueryToolLines(tool, queries) ==
  {CallTool(Id1, AStr(tool), NoArguments(ty)) : ty \in {"undefined", "null", "string", "object"}}
    \cup {CallTool(Id1, AStr(tool), QueryArguments(q)) :
            q \in {Num(<<"5">>), Str(<<>>)} \cup {Str(s) : s \in queries}}
    \cup {CallTool(Id2, AStr("list_tables"), NoArguments("undefined"))}

ReadQueryLines ==
  QueryToolLines("read_query", {qSelect1, qSelectThenDrop, qDeleteFromT})
WriteQueryLines ==
  QueryToolLines("write_query", {qUpdateT, qSelect1, tokDelete \o <<" ">> \o tokDrop \o <<" ">> \o tokTable})
CreateTableLines ==
  QueryToolLines("create_table", {qCreateTableT, qAlterTableT, tokCreate \o <<" ">> \o tokTable \o <<"s">>})

\* the argument shapes of describe_table, and list_tables
SchemaLines ==
  {CallTool(Id1, AStr("describe_table"), NoArguments(ty)) : ty \in {"undefined", "null", "string", "object"}}
    \cup {CallTool(Id1, AStr("describe_table"), Arguments("object", Undefined, tn, AUndefined)) :
            tn \in {ANum("5"), AStr("t")}}
    \cup {CallTool(Id2, AStr("list_tables"), NoArguments("undefined")),
          CallTool(Id2, AStr("list_tables"), QueryArguments(Str(qSelect1))),
          CallTool(IdUnknown, AStr("read_query"), QueryArguments(Str(qSelect1)))}

\* the argument shapes of append_insight, the memo, and a pending statement
InsightLines ==
  {CallTool(Id1, AStr("append_insight"), NoArguments(ty)) : ty \in {"undefined", "null", "string", "object"}}
    \cup {CallTool(id, AStr("append_insight"), Arguments("object", Undefined, AUndefined, i)) :
            id \in {Id1, Id2}, i \in {ANum("5"), AStr("a")}}
    \cup {Call(Id2, "mcp.readResource", Params("object", AStr(insightsUri), AUndefined, NoArguments("undefined"))),
          CallTool(IdUnknown, AStr("list_tables"), NoArguments("undefined"))}

\* one line for each way a request fails, and requests that succeed
FailureLines ==
  {GarbageLine,
   Call(Id1, "mcp.unknown", NoParams("object")),
   CallTool(Id2, AStr("drop_table"), NoArguments("object")),
   Call(Id1, "mcp.callTool", NoParams("undefined")),
   CallTool(Id1, AStr("read_query"), QueryArguments(Str(qDeleteFromT))),
   CallTool(Id2, AStr("read_query"), QueryArguments(Str(qSelect1))),
   CallTool(IdUnknown, AStr("list_tables"), NoArguments("undefined"))}

\* the lines of a run that begins with the startup: a read query, list_tables
\* and a line that cannot be parsed
StartupLines ==
  {GarbageLine,
   CallTool(Id1, AStr("read_query"), QueryArguments(Str(qSelect1))),
   CallTool(Id2, AStr("list_tables"), NoArguments("undefined"))}

LineFamilies ==
  {RouterLines, ReadQueryLines, WriteQueryLines, CreateTableLines, SchemaLines, InsightLines}

\* the messages of the errors the pool raises
PoolErrors == {"ER_NO_SUCH_TABLE"}

VARIABLES
  phase,          \* "starting", "serving" or "exited" (process.exit(1))
  inputs,         \* the lines the client may send in this run
  handlers,       \* the line handlers, in the order their lines arrived
  insights,       \* MySQLServer.insights
  insightCounter, \* MySQLServer.insightCounter
  vQuery,         \* validator run: the query argument
  vType,          \* validator run: the expectedType argument, "" before the call
  vOutcome,       \* validator run: what the call threw or that it returned
  setupSql,       \* scanner run: the script
  scanned,        \* scanner run: the script has been split
  statements,     \* scanner run: the statements it was split into
  scanner,        \* scanner run: the variables of the loop, between iterations
  setupFile,      \* startup: setup.sql is "missing", "unreadable" or "readable"
  startup,        \* startup: where run() stands in initializeDatabase
  cursor,         \* startup: the statement the execution loop is at
  submitted,      \* startup: the statements handed to pool.query, and how they settled
  thrown          \* startup: what initializeDatabase has to throw, "" if nothing

serverVars == <<phase, inputs, handlers, insights, insightCounter>>
validatorVars == <<vQuery, vType, vOutcome>>
scannerVars == <<setupSql, scanned, statements, scanner>>
startupVars == <<setupFile, startup, cursor, submitted, thrown>>
vars ==
  <<phase, inputs, handlers, insights, insightCounter, vQuery, vType, vOutcome,
    setupSql, scanned, statements, scanner, setupFile, startup, cursor, submitted, thrown>>

\* run() has not begun initializeDatabase, the loop of the scanner has not
\* begun
NotStarted ==
  /\ scanner = Scanner(1, <<>>, <<>>, FALSE, FALSE, "")
  /\ startup = "connect"
  /\ cursor = 1
  /\ submitted = <<>>
  /\ thrown = ""

NotCalled == [ok |-> FALSE, code |-> 0, message |-> "not called"]

(***************************************************************************)
(* The server.  A handler is the run of the 'line' callback for one line:  *)
(*   line     the line                                                     *)
(*   pc       "query": handleRequest awaits the pool; "settled":           *)
(*            handleRequest has settled and the callback's continuation is *)
(*            queued; "done": the response is written                      *)
(*   outcome  what handleRequest ended in, or awaits                       *)
(*   calls    the statements handed to the pool for this line              *)
(*   answers  what the pool answered to them                               *)
(*   written  the responses written to the output for this line            *)
(*   stored   the identifier of the insight appended for this line, or 0   *)
(*   promise  which of the promises alive at once the callback's is: the   *)
(*            handler keeps it from the line's arrival to its release.     *)
(*            It is kept in the runs on FailureLines, where a handler is   *)
(*            followed to its response, and is 0 in the others.            *)
(***************************************************************************)
\* the least number that names no handler alive
freePromise ==
  CHOOSE p \in 1..(Len(handlers) + 1) :
    /\ \A i \in 1..Len(handlers) : handlers[i].promise # p
    /\ \A q \in 1..(p - 1) : \E i \in 1..Len(handlers) : handlers[i].promise = q

Handler(line, pc, outcome, calls, written, stored) ==
  [line |-> line, pc |-> pc, outcome |-> outcome, calls |-> calls, answers |-> <<>>,
   written |-> written, stored |-> stored,
   promise |-> IF inputs = FailureLines THEN freePromise ELSE 0]

Init ==
  /\ phase = "starting"
  /\ inputs \in LineFamilies
  /\ handlers = <<>>
  /\ insights = <<>>
  /\ insightCounter = 0
  /\ vQuery = Undefined
  /\ vType = ""
  /\ vOutcome = NotCalled
  /\ setupSql = <<>>
  /\ scanned = FALSE
  /\ statements = <<>>
  /\ setupFile = "missing"
  /\ NotStarted

\* run(): initializeDatabase succeeds and the 'line' listener is attached
RunServes ==
  /\ phase = "starting"
  /\ phase' = "serving"
  /\ UNCHANGED <<inputs, handlers, insights, insightCounter, validatorVars, scannerVars, startupVars>>

\* run(): initializeDatabase throws, process.exit(1)
RunExits ==
  /\ phase = "starting"
  /\ phase' = "exited"
  /\ UNCHANGED <<inputs, handlers, insights, insightCounter, validatorVars, scannerVars, startupVars>>

\* this.insights.push(newInsight)
unshift(log, insight) == <<insight>> \o log
push(log, insight) == Append(log, insight)

\* the 'line' callback, up to its first await or, for a line that does not
\* parse, to its end
OnLine(line) ==
  LET parsed == JSONparse(line)
      outcome == handleRequest(parsed.value, insights, insightCounter)
  IN /\ phase = "serving"
     /\ Len(handlers) < MaxHandlers
     /\ IF parsed.threw
        THEN /\ handlers' = Append(handlers,
                   Handler(line, "done", ThrowError(parsed.message), <<>>,
                           <<parseErrorResponse(parsed.message)>>, 0))
             /\ UNCHANGED <<insights, insightCounter>>
        ELSE IF outcome.does = "query"
        THEN /\ handlers' = Append(handlers,
                   Handler(line, "query", outcome, <<outcome.statement>>, <<>>, 0))
             /\ UNCHANGED <<insights, insightCounter>>
        ELSE IF outcome.appends
        THEN /\ Len(insights) < MaxInsights
             /\ insightCounter' = incremented(insightCounter)
             /\ insights' = push(insights, newInsight(insightCounter', outcome.content))
             /\ handlers' = Append(handlers,
                   Handler(line, "settled", outcome, <<>>, <<>>,
                           newInsight(insightCounter', outcome.content).id))
        ELSE /\ handlers' = Append(handlers,
                   Handler(line, "settled", outcome, <<>>, <<>>, 0))
             /\ UNCHANGED <<insights, insightCounter>>
     /\ UNCHANGED <<phase, inputs, validatorVars, scannerVars, startupVars>>

\* the pool settles the statement handler i awaits; handleRequest runs on to
\* its end
QuerySettlesRetrying(i, settled) ==
  /\ handlers[i].pc = "query"
  /\ handlers' = [handlers EXCEPT ![i] =
       IF ~settled.ok /\ Len(handlers[i].calls) < 2
       THEN [@ EXCEPT !.answers = Append(@, settled),
                      !.calls = Append(@, handlers[i].outcome.statement)]
       ELSE [@ EXCEPT !.pc = "settled",
                      !.answers = Append(@, settled),
                      !.outcome = requestResume(JSONparse(handlers[i].line).value,
                                                handlers[i].outcome.statement, settled)]]
  /\ UNCHANGED <<phase, inputs, insights, insightCounter, validatorVars, scannerVars, startupVars>>
QuerySettles(i, settled) ==
  /\ handlers[i].pc = "query"
  /\ handlers' = [handlers EXCEPT ![i] =
       [@ EXCEPT !.pc = "settled",
                 !.answers = Append(@, settled),
                 !.outcome = requestResume(JSONparse(handlers[i].line).value,
                                           handlers[i].outcome.statement, settled)]]
  /\ UNCHANGED <<phase, inputs, insights, insightCounter, validatorVars, scannerVars, startupVars>>

\* mutant of Respond: an error response ends the process instead
RespondOrDie(i) ==
  /\ handlers[i].pc = "settled"
  /\ IF lineResponse(handlers[i].outcome).error.present
     THEN phase' = "exited" /\ UNCHANGED handlers
     ELSE /\ handlers' = [handlers EXCEPT ![i] =
                [@ EXCEPT !.pc = "done",
                          !.written = Append(@, lineResponse(handlers[i].outcome))]]
          /\ UNCHANGED phase
  /\ UNCHANGED <<inputs, insights, insightCounter, validatorVars, scannerVars, startupVars>>

\* mutant of Respond: responses are written in the order of arrival
RespondInOrder(i) ==
  /\ handlers[i].pc = "settled"
  /\ \A k \in 1..(i - 1) : handlers[k].pc = "done"
  /\ handlers' = [handlers EXCEPT ![i] =
       [@ EXCEPT !.pc = "done",
                 !.written = Append(@, lineResponse(handlers[i].outcome))]]
  /\ UNCHANGED <<phase, inputs, insights, insightCounter, validatorVars, scannerVars, startupVars>>

\* the continuation of the 'line' callback: console.log of the response
RespondTwiceOnError(i) ==
  /\ handlers[i].pc = "settled"
  /\ handlers' = [handlers EXCEPT ![i] =
       [@ EXCEPT !.pc = "done",
                 !.written = IF lineResponse(handlers[i].outcome).error.present
                             THEN @ \o <<lineResponse(handlers[i].outcome),
                                         parseErrorResponse(handlers[i].outcome.message)>>
                             ELSE Append(@, lineResponse(handlers[i].outcome))]]
  /\ UNCHANGED <<phase, inputs, insights, insightCounter, validatorVars, scannerVars, startupVars>>
Respond(i) ==
  /\ handlers[i].pc = "settled"
  /\ handlers' = [handlers EXCEPT ![i] =
       [@ EXCEPT !.pc = "done",
                 !.written = Append(@, lineResponse(handlers[i].outcome))]]
  /\ UNCHANGED <<phase, inputs, insights, insightCounter, validatorVars, scannerVars, startupVars>>

\* the callback of line i has returned and nothing refers to it any more
Release(i) ==
  /\ handlers[i].pc = "done"
  /\ handlers' = [j \in 1..(Len(handlers) - 1) |->
                    IF j < i THEN handlers[j] ELSE handlers[j + 1]]
  /\ UNCHANGED <<phase, inputs, insights, insightCounter, validatorVars, scannerVars, startupVars>>

Next ==
  \/ RunServes
  \/ RunExits
  \/ \E line \in inputs : OnLine(line)
  \/ \E i \in 1..Len(handlers) : QuerySettles(i, Fulfilled)
  \/ \E i \in 1..Len(handlers) : \E m \in PoolErrors : QuerySettles(i, Rejected(m))
  \/ \E i \in 1..Len(handlers) : Respond(i)
  \/ \E i \in 1..Len(handlers) : Release(i)

Spec == Init /\ [][Next]_vars

\* The event loop runs the queued continuation of every callback, and the
\* pool settles every statement it was handed (with rows or with an error):
\* the second is what the code expects of the gateway, it sets no timeout.
Fairness ==
  \A i \in 1..MaxHandlers :
    /\ WF_vars(i <= Len(handlers) /\ Respond(i))
    /\ WF_vars(i <= Len(handlers)
                /\ \E settled \in {Fulfilled} \cup {Rejected(m) : m \in PoolErrors} :
                     QuerySettles(i, settled))

\* the runs on FailureLines
InitFair ==
  /\ phase = "starting"
  /\ inputs = FailureLines
  /\ handlers = <<>>
  /\ insights = <<>>
  /\ insightCounter = 0
  /\ vQuery = Undefined
  /\ vType = ""
  /\ vOutcome = NotCalled
  /\ setupSql = <<>>
  /\ scanned = FALSE
  /\ statements = <<>>
  /\ setupFile = "missing"
  /\ NotStarted

FairSpec == InitFair /\ [][Next]_vars /\ Fairness

(***************************************************************************)
(* The validator as a state machine: a query of the input set is chosen,   *)
(* then validated for one expected type.                                   *)
(***************************************************************************)
InitValidate ==
  /\ vQuery \in {Undefined, Null, Num(<<"0">>), Num(<<"5">>)}
                  \cup {Str(q) : q \in TokenQueries(MaxTokens) \cup ExampleQueries}
  /\ vType = ""
  /\ vOutcome = NotCalled
  /\ phase = "exited"
  /\ inputs = {}
  /\ handlers = <<>>
  /\ insights = <<>>
  /\ insightCounter = 0
  /\ setupSql = <<>>
  /\ scanned = FALSE
  /\ statements = <<>>
  /\ setupFile = "missing"
  /\ NotStarted

Validate ==
  /\ vType = ""
  /\ \E t \in ExpectedTypes :
       /\ vType' = t
       /\ vOutcome' = validateSqlQuery(vQuery, t)
  /\ UNCHANGED <<vQuery, serverVars, scannerVars, startupVars>>

NextValidate == Validate

SpecValidate == InitValidate /\ [][NextValidate]_vars

(***************************************************************************)
(* The scanner as a state machine: a script of the input set is chosen,    *)
(* then split.                                                             *)
(***************************************************************************)
InitScan ==
  /\ setupSql \in PieceScripts(MaxPieces) \cup ExampleScripts
  /\ scanned = FALSE
  /\ statements = <<>>
  /\ setupFile = "readable"
  /\ NotStarted
  /\ phase = "starting"
  /\ inputs = {}
  /\ handlers = <<>>
  /\ insights = <<>>
  /\ insightCounter = 0
  /\ vQuery = Undefined
  /\ vType = ""
  /\ vOutcome = NotCalled

ScanSetupSql ==
  /\ ~scanned
  /\ scanned' = TRUE
  /\ statements' = splitStatements(setupSql)
  /\ UNCHANGED <<setupSql, scanner, serverVars, validatorVars, startupVars>>

NextScan == ScanSetupSql

SpecScan == InitScan /\ [][NextScan]_vars

(***************************************************************************)
(* The scanner, one iteration of its loop at a time.  The loop is          *)
(* synchronous code: an iteration that can run does run.                   *)
(***************************************************************************)
InitSteps ==
  /\ setupSql \in PieceScripts(MaxStepped)
  /\ scanned = FALSE
  /\ statements = <<>>
  /\ setupFile = "readable"
  /\ NotStarted
  /\ phase = "starting"
  /\ inputs = {}
  /\ handlers = <<>>
  /\ insights = <<>>
  /\ insightCounter = 0
  /\ vQuery = Undefined
  /\ vType = ""
  /\ vOutcome = NotCalled

\* the body of the for loop, while i < setupSql.length
Iterate ==
  /\ ~scanned
  /\ scanner.i <= Len(setupSql)
  /\ scanner' = iteration(setupSql, scanner)
  /\ UNCHANGED <<setupSql, scanned, statements, serverVars, validatorVars, startupVars>>

\* the loop is left and the last statement added
LeaveLoop ==
  /\ ~scanned
  /\ scanner.i > Len(setupSql)
  /\ scanned' = TRUE
  /\ statements' = pushLast(scanner.statements, scanner.currentStatement)
  /\ UNCHANGED <<setupSql, scanner, serverVars, validatorVars, startupVars>>

NextSteps == Iterate \/ LeaveLoop

SpecSteps == InitSteps /\ [][NextSteps]_vars /\ WF_vars(Iterate) /\ WF_vars(LeaveLoop)

(***************************************************************************)
(* Startup: run() awaits initializeDatabase, which connects, checks the    *)
(* database, creates the pool and runs the migrations; then the 'line'     *)
(* listener is attached, or the process exits.                             *)
(***************************************************************************)
InitMigrate ==
  /\ setupFile \in {"missing", "unreadable", "readable"}
  /\ setupSql \in IF setupFile = "readable" THEN MigrationScripts(MaxStatements) ELSE {<<>>}
  /\ scanned = FALSE
  /\ statements = <<>>
  /\ NotStarted
  /\ phase = "starting"
  /\ inputs = {}
  /\ handlers = <<>>
  /\ insights = <<>>
  /\ insightCounter = 0
  /\ vQuery = Undefined
  /\ vType = ""
  /\ vOutcome = NotCalled

Settlements == {Fulfilled} \cup {Rejected(m) : m \in PoolErrors}

\* mysql.createConnection settles
CreateConnectionListening(settled) ==
  /\ startup = "connect"
  /\ IF settled.ok
     THEN startup' = "checkDatabase" /\ thrown' = thrown /\ phase' = "serving"
     ELSE startup' = "finally" /\ thrown' = ConnectionFailed /\ phase' = phase
  /\ UNCHANGED <<setupFile, cursor, submitted, inputs, handlers, insights, insightCounter,
                 validatorVars, scannerVars>>
CreateConnection(settled) ==
  /\ startup = "connect"
  /\ IF settled.ok
     THEN startup' = "checkDatabase" /\ thrown' = thrown
     ELSE startup' = "finally" /\ thrown' = ConnectionFailed
  /\ UNCHANGED <<setupFile, cursor, submitted, serverVars, validatorVars, scannerVars>>

\* the queries that check for the database and create it settle
CheckDatabase(settled) ==
  /\ startup = "checkDatabase"
  /\ IF settled.ok
     THEN startup' = "createPool" /\ thrown' = thrown
     ELSE startup' = "finally" /\ thrown' = DatabaseCheckFailed
  /\ UNCHANGED <<setupFile, cursor, submitted, serverVars, validatorVars, scannerVars>>

\* the pool is created and its test query settles
CreatePool(settled) ==
  /\ startup = "createPool"
  /\ IF settled.ok
     THEN startup' = "runMigrations" /\ thrown' = thrown
     ELSE startup' = "finally" /\ thrown' = PoolCreationFailed
  /\ UNCHANGED <<setupFile, cursor, submitted, serverVars, validatorVars, scannerVars>>

\* runMigrations up to its loop: the file is looked for, read and split
RunMigrations ==
  /\ startup = "runMigrations"
  /\ CASE setupFile = "missing" ->
            startup' = "finally" /\ UNCHANGED <<thrown, scanned, statements>>
       [] setupFile = "unreadable" ->
            startup' = "finally" /\ thrown' = ReadFileFailed /\ UNCHANGED <<scanned, statements>>
       [] setupFile = "readable" ->
            /\ startup' = "execute"
            /\ scanned' = TRUE
            /\ statements' = splitStatements(setupSql)
            /\ thrown' = thrown
  /\ UNCHANGED <<setupFile, setupSql, scanner, cursor, submitted, serverVars, validatorVars>>

\* the loop over the statements: continue
SkipStatement ==
  /\ startup = "execute"
  /\ cursor <= Len(statements)
  /\ isSkipped(textOf(statements[cursor]))
  /\ cursor' = cursor + 1
  /\ UNCHANGED <<setupFile, startup, submitted, thrown, serverVars, validatorVars, scannerVars>>

\* the loop over the statements: await this.pool.query(statement) settles
QueryStatement(settled) ==
  /\ startup = "execute"
  /\ cursor <= Len(statements)
  /\ ~isSkipped(textOf(statements[cursor]))
  /\ submitted' = Append(submitted, [statement |-> cursor, settled |-> settled])
  /\ thrown' = IF settled.ok THEN thrown ELSE statementCatch(thrown, settled.message)
  /\ startup' = IF thrown' = "" THEN "execute" ELSE "finally"
  /\ cursor' = cursor + 1
  /\ UNCHANGED <<setupFile, serverVars, validatorVars, scannerVars>>

\* the loop over the statements is left, runMigrations returns
MigrationsCompleted ==
  /\ startup = "execute"
  /\ cursor > Len(statements)
  /\ startup' = "finally"
  /\ UNCHANGED <<setupFile, cursor, submitted, thrown, serverVars, validatorVars, scannerVars>>

\* the finally of initializeDatabase: the first connection, if there is
\* one, is ended, and a failure of that is logged
CloseConnection(settled) ==
  /\ startup = "finally"
  /\ thrown = ConnectionFailed => settled.ok
  /\ startup' = "returned"
  /\ UNCHANGED <<setupFile, cursor, submitted, thrown, serverVars, validatorVars, scannerVars>>

\* run() after initializeDatabase: the 'line' listener is attached, or the
\* catch calls process.exit(1)
RunResumes ==
  /\ startup = "returned"
  /\ startup' = "done"
  /\ phase' = IF thrown = "" THEN "serving" ELSE "exited"
  /\ UNCHANGED <<setupFile, cursor, submitted, thrown, inputs, handlers, insights,
                 insightCounter, validatorVars, scannerVars>>

NextMigrate ==
  \/ \E settled \in Settlements :
       \/ CreateConnection(settled)
       \/ CheckDatabase(settled)
       \/ CreatePool(settled)
       \/ QueryStatement(settled)
       \/ CloseConnection(settled)
  \/ RunMigrations
  \/ SkipStatement
  \/ MigrationsCompleted
  \/ RunResumes

SpecMigrate == InitMigrate /\ [][NextMigrate]_vars

(***************************************************************************)
(* A run from its start: the startup, then the lines of the client.        *)
(***************************************************************************)
InitRun ==
  /\ setupFile \in {"missing", "unreadable", "readable"}
  /\ setupSql \in IF setupFile = "readable" THEN MigrationScripts(MaxStartupStatements)
                  ELSE {<<>>}
  /\ scanned = FALSE
  /\ statements = <<>>
  /\ NotStarted
  /\ phase = "starting"
  /\ inputs = StartupLines
  /\ handlers = <<>>
  /\ insights = <<>>
  /\ insightCounter = 0
  /\ vQuery = Undefined
  /\ vType = ""
  /\ vOutcome = NotCalled

NextRun ==
  \/ NextMigrate
  \/ \E line \in inputs : OnLine(line)
  \/ \E i \in 1..Len(handlers) : \E settled \in Settlements : QuerySettles(i, settled)
  \/ \E i \in 1..Len(handlers) : Respond(i)
  \/ \E i \in 1..Len(handlers) : Release(i)

SpecRun == InitRun /\ [][NextRun]_vars

(***************************************************************************)
(* The claims about the validator, checked under SpecValidate.             *)
(***************************************************************************)
\* the trimmed, lower-cased text of a string value
NormalText(v) == toLowerCase(trim(v.s))
\* s begins with p; p occurs in s
HasPrefix(s, p) == Len(p) <= Len(s) /\ \A i \in 1..Len(p) : s[i] = p[i]
Contains(s, p) ==
  \E k \in 0..(Len(s) - Len(p)) : \A i \in 1..Len(p) : s[k + i] = p[i]

\* C2: with intent read the validator accepts a query if and only if its
\* trimmed, lower-cased text starts with `select` and contains none of
\* `drop `, `delete `, `update `, `insert `, `alter `, `create `; "SELECT * FROM t"
\* is accepted and "select * from t; drop table t" is rejected.
C2_ReadAcceptedIff ==
  vType = "select" =>
    /\ vOutcome.ok <=>
         /\ vQuery.ty = "string"
         /\ HasPrefix(NormalText(vQuery), kwSelect)
         /\ \A k \in {kwDropSp, kwDeleteSp, kwUpdateSp, kwInsertSp, kwAlterSp, kwCreateSp} :
              ~Contains(NormalText(vQuery), k)
    /\ vQuery = Str(qSelectAllFromT) => vOutcome.ok
    /\ vQuery = Str(qSelectThenDrop) => ~vOutcome.ok

\* a read query that starts with select is rejected for what it contains
C2_Witness ==
  /\ vType = "select"
  /\ vQuery = Str(qSelectThenDrop)
  /\ ~vOutcome.ok /\ vOutcome.code = InvalidParams

\* C3: with intent write the validator accepts a query if and only if its
\* trimmed, lower-cased text starts with one of `insert `, `update `, `delete `,
\* does not start with `select`, and contains none of `drop `, `alter `,
\* `create `; "UPDATE t SET x=1" is accepted and "SELECT 1" is rejected.
C3_WriteAcceptedIff ==
  vType = "write" =>
    /\ vOutcome.ok <=>
         /\ vQuery.ty = "string"
         /\ \E p \in {kwInsertSp, kwUpdateSp, kwDeleteSp} : HasPrefix(NormalText(vQuery), p)
         /\ ~HasPrefix(NormalText(vQuery), kwSelect)
         /\ \A k \in {kwDropSp, kwAlterSp, kwCreateSp} : ~Contains(NormalText(vQuery), k)
    /\ vQuery = Str(qUpdateT) => vOutcome.ok
    /\ vQuery = Str(qSelect1) => ~vOutcome.ok

\* a write query is accepted
C3_Witness ==
  /\ vType = "write"
  /\ vQuery = Str(qUpdateT)
  /\ vOutcome.ok

\* C4: with intent createTable the validator accepts a query if and only if
\* its trimmed, lower-cased text starts with `create table`, whatever follows;
\* "CREATE TABLE t (id INT)" is accepted and "ALTER TABLE t ADD c INT" is
\* rejected.
C4_CreateTableAcceptedIff ==
  vType = "create_table" =>
    /\ vOutcome.ok <=>
         (vQuery.ty = "string" /\ HasPrefix(NormalText(vQuery), kwCreateTable))
    /\ vQuery = Str(qCreateTableT) => vOutcome.ok
    /\ vQuery = Str(qAlterTableT) => ~vOutcome.ok

\* a create table query is accepted although it contains `drop `
C4_Witness ==
  /\ vType = "create_table"
  /\ vQuery = Str(qCreateThenDrop)
  /\ Contains(NormalText(vQuery), kwDropSp)
  /\ vOutcome.ok

(***************************************************************************)
(* The claims about the dispatcher and the router, checked under Spec.     *)
(***************************************************************************)
Parsed(h) == h.line.text = "json"
RequestOf(h) == h.line.value
Answered(h) == h.pc = "done"
\* the line of h is an mcp.callTool request that names tool
IsToolCall(h, tool) ==
  /\ Parsed(h)
  /\ RequestOf(h).ty = "object"
  /\ RequestOf(h).method = AStr("mcp.callTool")
  /\ RequestOf(h).params.ty = "object"
  /\ RequestOf(h).params.name = AStr(tool)
ArgumentsOf(h) == RequestOf(h).params.arguments
\* r is an error envelope with this code
IsErrorEnvelope(r, code) ==
  r.error.present /\ ~r.result.present /\ r.error.code = code
\* exactly one response was written for h, an error envelope with this code
AnsweredWithError(h, code) ==
  Len(h.written) = 1 /\ IsErrorEnvelope(h.written[1], code)

QueryTools == {"read_query", "write_query", "create_table"}
IntentOf(tool) ==
  CASE tool = "read_query" -> "select"
    [] tool = "write_query" -> "write"
    [] tool = "create_table" -> "create_table"
ValidatorAccepts(h, tool) ==
  ArgumentsOf(h).ty = "object" /\ validateSqlQuery(ArgumentsOf(h).query, IntentOf(tool)).ok
ValidatorRejects(h, tool) ==
  ArgumentsOf(h).ty = "object" /\ ~validateSqlQuery(ArgumentsOf(h).query, IntentOf(tool)).ok

\* C1: for read_query, write_query and create_table the gateway is invoked
\* for a request only if the validator accepted the request's query for the
\* tool's intent (and then with that query); a request the validator rejects
\* (such as read_query with "DELETE FROM t") never has a statement at the
\* gateway and is answered with an InvalidParams error, whatever else is in
\* flight.
C1_GatewayOnlyIfAccepted ==
  \A i \in 1..Len(handlers) : \A tool \in QueryTools :
    LET h == handlers[i]
    IN IsToolCall(h, tool) =>
         /\ h.calls # <<>> =>
              /\ ValidatorAccepts(h, tool)
              /\ h.calls = <<Statement(tool, ArgumentsOf(h).query.s, AUndefined)>>
         /\ ValidatorRejects(h, tool) =>
              /\ h.calls = <<>> /\ h.answers = <<>> /\ h.pc # "query"
              /\ Answered(h) => AnsweredWithError(h, InvalidParams)
         /\ (tool = "read_query" /\ ArgumentsOf(h).query = Str(qDeleteFromT)) =>
              ValidatorRejects(h, tool)

\* read_query with "DELETE FROM t" is answered InvalidParams without a
\* statement, while another request's statement is pending at the gateway
C1_Witness ==
  \E i, j \in 1..Len(handlers) :
    /\ IsToolCall(handlers[i], "read_query")
    /\ ArgumentsOf(handlers[i]).query = Str(qDeleteFromT)
    /\ AnsweredWithError(handlers[i], InvalidParams)
    /\ handlers[i].calls = <<>>
    /\ handlers[j].pc = "query"

RequiredArgument(h, tool) ==
  CASE tool \in QueryTools -> ArgumentsOf(h).query
    [] tool = "describe_table" -> ArgumentsOf(h).table_name
    [] tool = "append_insight" -> ArgumentsOf(h).insight

\* C5: for every tool that declares a required argument (read_query,
\* write_query, create_table, describe_table, append_insight) a call whose
\* arguments are missing or no object, or whose required argument is absent or
\* no string, is answered with an InvalidParams error envelope, without a
\* statement at the gateway and without an appended insight.
\* (Violated by the code: describe_table and append_insight do not check
\* their arguments.)
C5_MalformedArgumentsRejected ==
  \A i \in 1..Len(handlers) :
    \A tool \in QueryTools \cup {"describe_table", "append_insight"} :
      LET h == handlers[i]
      IN (/\ IsToolCall(h, tool)
          /\ \/ ArgumentsOf(h).ty # "object"
             \/ RequiredArgument(h, tool).ty # "string") =>
           /\ h.calls = <<>>
           /\ h.stored = 0
           /\ Answered(h) => AnsweredWithError(h, InvalidParams)

\* C6: for every tool that uses the gateway a failure raised by the gateway
\* is answered with an error envelope whose code is InternalError and whose
\* message is "Database error: " followed by the gateway's message.
\* (Violated by the code: list_tables and describe_table answer a gateway
\* failure with a result that has isError set.)
C6_GatewayFailureIsInternalError ==
  \A i \in 1..Len(handlers) :
    LET h == handlers[i]
    IN (Answered(h) /\ h.answers # <<>> /\ ~h.answers[1].ok) =>
         /\ AnsweredWithError(h, InternalError)
         /\ h.written[1].error.message = "Database error: " \o h.answers[1].message

\* C7: every response carries the identifier of the request that caused it,
\* or "unknown" if that request could not be parsed at all.
\* (Violated by the code: the line `null` parses and is answered "unknown".)
C7_ResponseCarriesRequestId ==
  \A i \in 1..Len(handlers) : \A k \in 1..Len(handlers[i].written) :
    LET h == handlers[i]
    IN h.written[k].id = IF Parsed(h) THEN RequestOf(h).id ELSE AStr("unknown")

\* C8: every response written holds exactly one of the keys result and
\* error, for every method, tool and failure path.
C8_ResultXorError ==
  \A i \in 1..Len(handlers) : \A k \in 1..Len(handlers[i].written) :
    handlers[i].written[k].result.present # handlers[i].written[k].error.present

\* a gateway failure of list_tables is answered on the path through the
\* catch of handleToolCall, and a rejected query with an error envelope
C8_Witness ==
  \E i, j \in 1..Len(handlers) :
    /\ handlers[i].answers = <<Rejected("ER_NO_SUCH_TABLE")>>
    /\ Len(handlers[i].written) = 1
    /\ handlers[i].written[1].result.isError
    /\ Len(handlers[j].written) = 1
    /\ handlers[j].written[1].error.present

\* C9: a line that cannot be parsed is answered with id "unknown" and code
\* ParseError, at once; no statement goes to the gateway and no insight is
\* appended for it.
C9_UnparsableLine ==
  \A i \in 1..Len(handlers) :
    LET h == handlers[i]
    IN ~Parsed(h) =>
         /\ h.pc = "done"
         /\ AnsweredWithError(h, ParseError)
         /\ h.written[1].id = AStr("unknown")
         /\ h.calls = <<>> /\ h.answers = <<>>
         /\ h.stored = 0

\* a blank line is answered while another request's statement is pending
C9_Witness ==
  \E i, j \in 1..Len(handlers) :
    /\ handlers[i].line = BlankLine
    /\ AnsweredWithError(handlers[i], ParseError)
    /\ handlers[j].pc = "query"

Methods ==
  {"mcp.listTools", "mcp.listResources", "mcp.listResourceTemplates",
   "mcp.readResource", "mcp.callTool"}

\* C10: a parsed request whose method is none of the five methods, and an
\* mcp.callTool request whose tool name is none of the six tools, are answered
\* with a MethodNotFound error envelope.
\* (Violated by the code: mcp.callTool without params is answered with an
\* isError result, the line `null` with ParseError.)
C10_UnknownMethodOrTool ==
  \A i \in 1..Len(handlers) :
    LET h == handlers[i]
    IN (Parsed(h) /\ Answered(h)) =>
         /\ RequestOf(h).method \notin {AStr(m) : m \in Methods} =>
              AnsweredWithError(h, MethodNotFound)
         /\ (/\ RequestOf(h).method = AStr("mcp.callTool")
             /\ RequestOf(h).params.name \notin {AStr(ToolNames[n]) : n \in 1..Len(ToolNames)}) =>
              AnsweredWithError(h, MethodNotFound)

(***************************************************************************)
(* The claims about the memo resource and the insight log, checked under   *)
(* Spec.                                                                   *)
(***************************************************************************)
\* the line of h is an mcp.readResource request
IsReadResource(h) ==
  /\ Parsed(h)
  /\ RequestOf(h).ty = "object"
  /\ RequestOf(h).method = AStr("mcp.readResource")
\* the uri of the request of h is exactly memo://insights
NamesInsightsUri(h) ==
  RequestOf(h).params.ty = "object" /\ RequestOf(h).params.uri = AStr(insightsUri)
\* r is a result that carries resource contents
IsMemoResponse(r) == r.result.present /\ r.result.key = "contents"

\* C11: an mcp.readResource request is answered with the insights memo only
\* when its uri is exactly memo://insights; every other mcp.readResource
\* request (another uri, or no uri at all) is answered with an error envelope
\* classified InvalidRequest.
\* (Violated by the code: without params, reading params.uri throws a
\* TypeError and the request is answered InternalError.)
C11_ReadResourceOnlyInsightsUri ==
  \A i \in 1..Len(handlers) :
    LET h == handlers[i]
    IN (IsReadResource(h) /\ Answered(h)) =>
         /\ Len(h.written) = 1
         /\ IsMemoResponse(h.written[1]) => NamesInsightsUri(h)
         /\ ~NamesInsightsUri(h) => AnsweredWithError(h, InvalidRequest)

\* the line of h appended an insight
Appended(h) == h.outcome.appends

\* C12: in every reachable state the insight log holds the identifiers
\* 1, 2, ..., n in that order: the k-th append since startup received
\* identifier k, however the handling of other requests is interleaved.
C12_IdentifiersSequential ==
  /\ insightCounter = Len(insights)
  /\ \A k \in 1..Len(insights) : insights[k].id = k

\* the log is full while a statement of another request is pending at the
\* gateway and the last append is not answered yet
C12_Witness ==
  /\ Len(insights) = MaxInsights
  /\ insights[MaxInsights].id = MaxInsights
  /\ \E i, j \in 1..Len(handlers) :
       /\ handlers[i].pc = "query"
       /\ j > i
       /\ handlers[j].stored = MaxInsights
       /\ handlers[j].pc = "settled"

\* C13: identifier assignment in append_insight is atomic: when appends are
\* handled with overlapping lifetimes no two stored insights share an
\* identifier, no two requests are given the same identifier, and no
\* identifier is skipped.
C13_AppendAtomic ==
  /\ \A j, k \in 1..Len(insights) : j # k => insights[j].id # insights[k].id
  /\ \A k \in 1..(Len(insights) - 1) : insights[k + 1].id = insights[k].id + 1
  /\ \A i, j \in 1..Len(handlers) :
       (i # j /\ Appended(handlers[i]) /\ Appended(handlers[j])) =>
         handlers[i].stored # handlers[j].stored

\* two appends are in flight at once, neither answered yet
C13_Witness ==
  \E i, j \in 1..Len(handlers) :
    /\ i < j
    /\ Appended(handlers[i]) /\ handlers[i].pc = "settled"
    /\ Appended(handlers[j]) /\ handlers[j].pc = "settled"
    /\ handlers[i].stored + 1 = handlers[j].stored

\* C14: the confirmation of an append_insight request names exactly the
\* identifier under which that request's content is stored in the log, the
\* next identifier at the moment of the append, also when other appends are
\* in flight.
C14_ConfirmationNamesStoredId ==
  \A i \in 1..Len(handlers) :
    LET h == handlers[i]
    IN Appended(h) =>
         /\ \E k \in 1..Len(insights) :
              /\ insights[k].id = h.stored
              /\ insights[k].content = ArgumentsOf(h).insight
         /\ Answered(h) =>
              /\ Len(h.written) = 1
              /\ h.written[1].result.present
              /\ h.written[1].result.text.fmt = "Insight #"
              /\ h.written[1].result.text.num = h.stored
              /\ h.written[1].id = RequestOf(h).id

\* the second of two appends in flight is confirmed before the first
C14_Witness ==
  \E i, j \in 1..Len(handlers) :
    /\ i < j
    /\ Appended(handlers[i]) /\ handlers[i].pc = "settled"
    /\ Appended(handlers[j]) /\ Answered(handlers[j])
    /\ handlers[j].written[1].result.text.num = 2
    /\ handlers[j].stored = 2

\* the line of h asks for the memo resource
IsMemoRead(h) == IsReadResource(h) /\ NamesInsightsUri(h)
\* the memo of a response
MemoOf(r) == r.result.text
placeholder == "No insights have been discovered yet."
\* text renders the insights of log: each once, oldest first, identifiers
\* increasing, and the placeholder line exactly if there is none
MemoRenders(text, log) ==
  /\ Len(text.memo) = Len(log)
  /\ \A k \in 1..Len(log) :
       text.memo[k].heading = log[k].id /\ text.memo[k].body = log[k].content
  /\ \A k \in 1..(Len(log) - 1) : text.memo[k].heading < text.memo[k + 1].heading
  /\ (text.arg = placeholder) <=> (Len(log) = 0)
\* what is known of a memo read in any later state: its response renders the
\* log as it was at some earlier moment, and is written as it was made
MemoReadsRenderThePast ==
  \A i \in 1..Len(handlers) :
    LET h == handlers[i]
    IN IsMemoRead(h) =>
         /\ h.outcome.does = "return"
         /\ IsMemoResponse(h.outcome.response)
         /\ \E n \in 0..Len(insights) :
              MemoRenders(MemoOf(h.outcome.response), SubSeq(insights, 1, n))
         /\ Answered(h) => h.written = <<h.outcome.response>>
\* the step that handles a memo read makes a response that renders the log
\* of that moment
MemoReadRendersTheLog ==
  \A line \in inputs :
    (OnLine(line) /\ IsMemoRead(handlers'[Len(handlers')])) =>
      MemoRenders(MemoOf(handlers'[Len(handlers')].outcome.response), insights)

\* C15: reading memo://insights renders every insight that is in the log
\* when the request is handled exactly once, oldest first in the order of
\* increasing identifiers, and renders the placeholder line if and only if
\* the log is empty.
C15_MemoRendersLog == []MemoReadsRenderThePast /\ [][MemoReadRendersTheLog]_vars

\* a memo read handled before the first append shows the placeholder, one
\* handled after the last shows every insight
C15_Witness ==
  \E i, j \in 1..Len(handlers) :
    /\ IsMemoRead(handlers[i]) /\ IsMemoRead(handlers[j])
    /\ Answered(handlers[j])
    /\ MemoOf(handlers[i].outcome.response).arg = placeholder
    /\ Len(MemoOf(handlers[j].written[1]).memo) = MaxInsights
    /\ MemoOf(handlers[j].written[1]).arg # placeholder

\* an insight whose append_insight request is answered is in the log
AnsweredAppendsAreLogged ==
  \A i \in 1..Len(handlers) :
    (Appended(handlers[i]) /\ Answered(handlers[i])) =>
      \E k \in 1..Len(insights) :
        insights[k] = Insight(handlers[i].stored, ArgumentsOf(handlers[i]).insight)
\* no step removes or changes an insight of the log
InsightsPersist ==
  \A k \in 1..Len(insights) : Len(insights') >= k /\ insights'[k] = insights[k]
\* the step that handles a memo read makes a response that contains every
\* insight of the log
MemoReadContainsTheLog ==
  \A line \in inputs :
    (OnLine(line) /\ IsMemoRead(handlers'[Len(handlers')])) =>
      \A k \in 1..Len(insights) :
        \E m \in 1..Len(MemoOf(handlers'[Len(handlers')].outcome.response).memo) :
          MemoOf(handlers'[Len(handlers')].outcome.response).memo[m] =
            [heading |-> insights[k].id, body |-> insights[k].content]

\* C16: the memo reflects appends: once the response to an append_insight
\* request is written its insight is in the log, it stays there unchanged in
\* every later state, and every memo read handled from then on contains it.
C16_MemoReflectsAppends ==
  []AnsweredAppendsAreLogged /\ [][InsightsPersist /\ MemoReadContainsTheLog]_vars

\* a memo read made after the appends were answered and their handlers
\* released contains their insights
C16_Witness ==
  /\ Len(handlers) = 1
  /\ IsMemoRead(handlers[1])
  /\ Len(MemoOf(handlers[1].outcome.response).memo) = MaxInsights
  /\ \A k \in 1..MaxInsights :
       MemoOf(handlers[1].outcome.response).memo[k].heading = insights[k].id

(***************************************************************************)
(* The claims about the life of the process and the order of responses.    *)
(***************************************************************************)
\* r reports a failure: an error envelope, or a result with isError
IsFailure(r) == r.error.present \/ r.result.isError
\* the callback with promise p has a line in hand that it has not answered
Unanswered(p) ==
  \E i \in 1..Len(handlers) : handlers[i].promise = p /\ handlers[i].pc # "done"
\* the callback with promise p has written its one response
HasAnswered(p) ==
  \E i \in 1..Len(handlers) :
    /\ handlers[i].promise = p
    /\ handlers[i].pc = "done"
    /\ Len(handlers[i].written) = 1

C18_NotSerialized ==
  \A i, j \in 1..Len(handlers) :
    (i < j /\ handlers[i].pc = "query" /\ handlers[j].pc = "settled") =>
      ENABLED Respond(j)

\* a list_tables that arrived after a read_query is answered while the
\* statement of the read_query is still pending at the gateway
C18_Witness ==
  \E i, j \in 1..Len(handlers) :
    /\ i < j
    /\ IsToolCall(handlers[i], "read_query")
    /\ handlers[i].pc = "query" /\ handlers[i].written = <<>>
    /\ IsToolCall(handlers[j], "list_tables")
    /\ handlers[j].answers = <<Fulfilled>>
    /\ Answered(handlers[j]) /\ Len(handlers[j].written) = 1

(***************************************************************************)
(* The claims about the scanner, checked under SpecScan.  They speak of    *)
(* the lexical reading of a script: a quote character opens a literal that *)
(* the next same character closes, -- opens a comment that ends before the *)
(* end of the line, and a block comment reaches from its opening to its    *)
(* closing pair; none of them begins inside another.  Lexical labels every *)
(* position with what it lies in and with where that began.                *)
(***************************************************************************)
QuoteCharacters == {"'", "\"", backtick}
Label(in, open) == [in |-> in, open |-> open]
Pair(s, k, c1, c2) == k < Len(s) /\ s[k] = c1 /\ s[k + 1] = c2

RECURSIVE Lexical(_, _, _, _, _)
Lexical(s, k, in, open, labels) ==
  IF k > Len(s) THEN labels
  ELSE CASE in = "code" ->
              IF s[k] \in QuoteCharacters
              THEN Lexical(s, k + 1, "literal", k, Append(labels, Label("literal", k)))
              ELSE IF Pair(s, k, "-", "-")
              THEN Lexical(s, k + 1, "line comment", k, Append(labels, Label("line comment", k)))
              ELSE IF Pair(s, k, "/", "*")
              THEN Lexical(s, k + 2, "block comment", k,
                           labels \o <<Label("block comment", k), Label("block comment", k)>>)
              ELSE Lexical(s, k + 1, "code", 0, Append(labels, Label("code", 0)))
         [] in = "literal" ->
              Lexical(s, k + 1, IF s[k] = s[open] THEN "code" ELSE "literal", open,
                      Append(labels, Label("literal", open)))
         [] in = "line comment" ->
              IF s[k] = "\n"
              THEN Lexical(s, k + 1, "code", 0, Append(labels, Label("code", 0)))
              ELSE Lexical(s, k + 1, "line comment", open, Append(labels, Label("line comment", open)))
         [] in = "block comment" ->
              IF Pair(s, k, "*", "/")
              THEN Lexical(s, k + 2, "code", 0,
                           labels \o <<Label("block comment", open), Label("block comment", open)>>)
              ELSE Lexical(s, k + 1, "block comment", open, Append(labels, Label("block comment", open)))

LabelsOf(s) == Lexical(s, 1, "code", 0, <<>>)
InComment(label) == label.in \in {"line comment", "block comment"}
\* the positions of the literal that begins at open, up to its closing quote
\* or, if it is not closed, to the last character trim keeps
LiteralAt(s, open) ==
  {p \in 1..Len(s) :
     /\ LabelsOf(s)[p] = Label("literal", open)
     /\ \E q \in p..Len(s) : LabelsOf(s)[q] = Label("literal", open) /\ ~isWhiteSpace(s[q])}
\* the characters of the script at the positions a..b, marked
Marked(s, a, b) == [k \in 1..(b - a + 1) |-> Ch(s[a + k - 1], a + k - 1)]
\* marked occurs in statement as it stands
OccursIn(marked, statement) ==
  \E k \in 0..(Len(statement) - Len(marked)) :
    \A j \in 1..Len(marked) : statement[k + j] = marked[j]
Greatest(S) == CHOOSE p \in S : \A q \in S : q <= p

\* C19: a ; that lies inside a single-quoted, double-quoted or
\* backtick-quoted literal produces no statement boundary: the literal, with
\* its ; , stands whole in one emitted statement.
C19_SemicolonInLiteral ==
  scanned =>
    /\ \A k \in 1..Len(setupSql) :
         (setupSql[k] = ";" /\ LabelsOf(setupSql)[k].in = "literal") =>
           LET open == LabelsOf(setupSql)[k].open
           IN \E n \in 1..Len(statements) :
                OccursIn(Marked(setupSql, open, Greatest(LiteralAt(setupSql, open))),
                         statements[n])
    /\ setupSql = sQuotedSemicolon => Len(statements) = 1

\* a backtick-quoted literal with a ; in it, followed by a ; that ends the
\* statement
C19_Witness ==
  /\ scanned
  /\ setupSql = <<backtick, ";", backtick, ";">>
  /\ Len(statements) = 1
  /\ textOf(statements[1]) = setupSql

\* the statement that holds the character read from position p, or 0
StatementOf(p) ==
  IF \E n \in 1..Len(statements) : \E j \in 1..Len(statements[n]) : statements[n][j].at = p
  THEN CHOOSE n \in 1..Len(statements) : \E j \in 1..Len(statements[n]) : statements[n][j].at = p
  ELSE 0

\* C20: no character that lies inside a -- line comment or a block comment
\* appears in an emitted statement, and a ; inside a comment produces no
\* statement boundary: two emitted characters with no ; of the code between
\* them are in the same statement; the script of the example yields one
\* statement.
C20_CommentsDiscarded ==
  scanned =>
    /\ \A n \in 1..Len(statements) : \A j \in 1..Len(statements[n]) :
         /\ ~InComment(LabelsOf(setupSql)[statements[n][j].at])
         /\ statements[n][j].char = setupSql[statements[n][j].at]
    /\ \A p, q \in 1..Len(setupSql) :
         (/\ p < q
          /\ StatementOf(p) # 0 /\ StatementOf(q) # 0
          /\ \A r \in p..(q - 1) : setupSql[r] = ";" => InComment(LabelsOf(setupSql)[r])) =>
           StatementOf(p) = StatementOf(q)
    /\ setupSql = sBlockComment => Len(statements) = 1

\* the script of the example is split into its one statement
C20_Witness ==
  /\ scanned
  /\ setupSql = sBlockComment
  /\ Len(statements) = 1
  /\ textOf(statements[1]) = <<"S", "E", "L", "E", "C", "T", " ", "1", ";">>

\* the character at position p of the script is a ; of the code, outside
\* every literal and comment
CodeSemicolon(p) == setupSql[p] = ";" /\ LabelsOf(setupSql)[p].in = "code"
\* the texts of the emitted statements
Texts == [n \in 1..Len(statements) |-> textOf(statements[n])]

WellFormed(s) ==
  \A k \in 1..Len(s) :
    LET label == LabelsOf(s)[k]
    IN /\ label.in = "literal" =>
            \E q \in (label.open + 1)..Len(s) :
              LabelsOf(s)[q] = label /\ s[q] = s[label.open]
       /\ label.in = "block comment" =>
            \E q \in (label.open + 2)..Len(s) :
              LabelsOf(s)[q] = label /\ Pair(s, q, "*", "/")
\* the character at position q remains after the comments are stripped and
\* is neither white space nor a ; that delimits
Remains(q) ==
  /\ ~InComment(LabelsOf(setupSql)[q])
  /\ ~isWhiteSpace(setupSql[q])
  /\ ~CodeSemicolon(q)
\* the semicolon-delimited segments, each named by the boundary before it (0
\* or the position of a ; of the code), that are not empty
NonEmptySegments ==
  {b \in {0} \cup {p \in 1..Len(setupSql) : CodeSemicolon(p)} :
     \E q \in (b + 1)..Len(setupSql) :
       Remains(q) /\ \A r \in (b + 1)..q : ~CodeSemicolon(r)}

\* C22: for a script made only of well-formed statements separated by ; ,
\* the number of emitted statements equals the number of non-empty
\* semicolon-delimited segments that remain after comments are stripped; an
\* empty or white-space-only segment adds no statement.
C22_CountsNonEmptySegments ==
  (scanned /\ WellFormed(setupSql)) =>
    Len(statements) = Cardinality(NonEmptySegments)

\* C23: the statements are emitted in source order, the characters of each
\* in the order of the script and every statement before the next, and
\* every emitted statement is non-empty and neither begins nor ends with
\* white space.
C23_OrderedAndTrimmed ==
  scanned =>
    \A n \in 1..Len(statements) :
      /\ Len(statements[n]) > 0
      /\ ~isWhiteSpace(statements[n][1].char)
      /\ ~isWhiteSpace(statements[n][Len(statements[n])].char)
      /\ \A j \in 1..(Len(statements[n]) - 1) :
           statements[n][j].at < statements[n][j + 1].at
      /\ n < Len(statements) =>
           statements[n][Len(statements[n])].at < statements[n + 1][1].at

\* two statements are emitted, and white space of the code before the
\* second is in neither
C23_Witness ==
  /\ scanned
  /\ setupSql = <<"a", ";", " ", "a">>
  /\ Len(statements) = 2
  /\ StatementOf(3) = 0
  /\ StatementOf(4) = 2

\* the position of the last ; of the code, or 0
LastBoundary == Greatest({0} \cup {p \in 1..Len(setupSql) : CodeSemicolon(p)})
\* the emitted statements made of characters that follow the last ; of the
\* code
FinalStatements ==
  {n \in 1..Len(statements) :
     \A j \in 1..Len(statements[n]) : statements[n][j].at > LastBoundary}

\* C24: at end of input the characters that follow the last ; of the code
\* are emitted as a final statement, with no ; to end it, if and only if
\* they are not all white space or comment; that statement is the last one
\* and holds every one of them that is not white space.
C24_FinalFlush ==
  scanned =>
    /\ (FinalStatements # {}) <=> (LastBoundary \in NonEmptySegments)
    /\ \A n \in FinalStatements :
         /\ n = Len(statements)
         /\ \A q \in (LastBoundary + 1)..Len(setupSql) : Remains(q) => StatementOf(q) = n

\* a statement without a ; follows the last ; of the script and is emitted
C24_Witness ==
  /\ scanned
  /\ setupSql = <<";", "a", " ">>
  /\ FinalStatements = {2}
  /\ textOf(statements[2]) = <<"a">>

(***************************************************************************)
(* The claim about the loop of the scanner, checked under SpecSteps.       *)
(***************************************************************************)
\* C27: for every input text, unterminated literals, unterminated block
\* comments and a trailing - or / included, every iteration of the scan
\* reads inside the text and moves forward, and the scan ends with a
\* statement sequence that is no longer than the text.
C27_Total ==
  /\ [][Iterate => (scanner.i \in 1..Len(setupSql) /\ scanner'.i > scanner.i)]_vars
  /\ <>(scanned /\ Len(statements) <= Len(setupSql))

\* the scan of an unterminated literal that ends with a - has ended, and
\* the scan of an unterminated block comment that ends with a / too
C27_Witness ==
  /\ scanned
  /\ setupSql \in {<<"'", ";", "-">>, <<"/", "*", "/">>, <<"-", "-">>}
  /\ scanner.i > Len(setupSql)

(***************************************************************************)
(* The claims about startup, checked under SpecMigrate.                    *)
(***************************************************************************)
\* the statements the execution loop has passed
Passed == 1..(cursor - 1)
\* the statements handed to the gateway
Submitted == {submitted[k].statement : k \in 1..Len(submitted)}

\* C25: during migration a statement is skipped, not sent to the gateway,
\* if and only if its lower-cased text contains create database or begins
\* with use ; every other statement is sent.
C25_SkipsDatabaseStatements ==
  scanned =>
    \A n \in Passed :
      (n \notin Submitted) <=>
        \/ includes(toLowerCase(textOf(statements[n])),
                    <<"c", "r", "e", "a", "t", "e", " ", "d", "a", "t", "a", "b", "a", "s", "e">>)
        \/ startsWith(toLowerCase(textOf(statements[n])), <<"u", "s", "e", " ">>)

\* C26: every statement that is not skipped is submitted to the gateway
\* exactly once and in source order, a failed statement is followed by the
\* submission of the statements after it, and after the migration the server
\* serves.
C26_BestEffort ==
  scanned =>
    /\ \A k \in 1..(Len(submitted) - 1) : submitted[k].statement < submitted[k + 1].statement
    /\ Submitted = {n \in Passed : ~isSkipped(textOf(statements[n]))}
    /\ startup # "execute" => Passed = 1..Len(statements)
    /\ startup = "done" => phase = "serving"

\* the first of two statements failed at the gateway, the second was
\* submitted and the server serves
C26_Witness ==
  /\ startup = "done"
  /\ phase = "serving"
  /\ Len(statements) = 2
  /\ Len(submitted) = 2
  /\ ~submitted[1].settled.ok
  /\ submitted[2].statement = 2

\* C28: the process exits only when connection establishment failed during
\* startup; a missing migration file and a failing migration statement do
\* not end it.
C28_OnlyConnectionFailureIsFatal ==
  /\ phase = "exited" => thrown \in {ConnectionFailed, DatabaseCheckFailed, PoolCreationFailed}
  /\ (startup = "done" /\ thrown = "") => phase = "serving"
  /\ (startup = "returned" /\ setupFile = "missing") =>
       thrown \in {"", ConnectionFailed, DatabaseCheckFailed, PoolCreationFailed}
  /\ (\E k \in 1..Len(submitted) : ~submitted[k].settled.ok) => thrown = ""

(***************************************************************************)
(* The claims about the tool set and the frame of the insight log, checked *)
(* under Spec.                                                             *)
(***************************************************************************)
Advertised ==
  <<"read_query", "write_query", "create_table", "list_tables", "describe_table",
    "append_insight">>
\* the line of h is an mcp.callTool request whose params are an object
IsCallTool(h) ==
  /\ Parsed(h)
  /\ RequestOf(h).ty = "object"
  /\ RequestOf(h).method = AStr("mcp.callTool")
  /\ RequestOf(h).params.ty = "object"
\* the line of h is an mcp.listTools request
IsListTools(h) ==
  Parsed(h) /\ RequestOf(h).ty = "object" /\ RequestOf(h).method = AStr("mcp.listTools")
\* the tool name of the request of h is one of the advertised names
NamesAdvertised(h) ==
  \E n \in 1..Len(Advertised) : RequestOf(h).params.name = AStr(Advertised[n])

\* C29: in every state an answered mcp.listTools has been answered with
\* exactly the six tools read_query, write_query, create_table, list_tables,
\* describe_table, append_insight, and an mcp.callTool request is answered
\* MethodNotFound if and only if its tool name is none of those six; a
\* request that waits for the gateway names one of them.
C29_ToolSetConsistent ==
  \A i \in 1..Len(handlers) :
    LET h == handlers[i]
    IN /\ (IsListTools(h) /\ Answered(h)) =>
            /\ Len(h.written) = 1
            /\ h.written[1].result.present
            /\ h.written[1].result.tools = Advertised
       /\ (IsCallTool(h) /\ Answered(h)) =>
            (AnsweredWithError(h, MethodNotFound) <=> ~NamesAdvertised(h))
       /\ (IsCallTool(h) /\ h.pc = "query") => NamesAdvertised(h)

\* the tools were listed, and a call of drop_table was answered
\* MethodNotFound
C29_Witness ==
  \E i, j \in 1..Len(handlers) :
    /\ IsListTools(handlers[i]) /\ Answered(handlers[i])
    /\ handlers[i].written[1].result.tools = Advertised
    /\ IsCallTool(handlers[j]) /\ RequestOf(handlers[j]).params.name = AStr("drop_table")
    /\ AnsweredWithError(handlers[j], MethodNotFound)

\* h is an append_insight call that returns a result that is no error
SuccessfulAppend(h) ==
  /\ IsToolCall(h, "append_insight")
  /\ h.outcome.does = "return"
  /\ h.outcome.response.result.present
  /\ ~h.outcome.response.result.isError

\* C30: a step that changes the insight log or the identifier counter is the
\* handling of an append_insight call that succeeds, it adds one entry at
\* the end and counts one up; every other step (list and read methods, other
\* tools, rejected and failed requests, settlements, responses) leaves both
\* unchanged, and no step modifies or removes an entry the log holds.
C30_AppendOnly ==
  [][/\ Len(insights') >= Len(insights)
     /\ SubSeq(insights', 1, Len(insights)) = insights
     /\ (insights' # insights \/ insightCounter' # insightCounter) =>
          /\ Len(handlers') = Len(handlers) + 1
          /\ SuccessfulAppend(handlers'[Len(handlers')])
          /\ Len(insights') = Len(insights) + 1
          /\ insightCounter' = insightCounter + 1]_vars

\* two insights are in the log, appended one after the other, and a call of
\* append_insight without arguments has been answered without an append
C30_Witness ==
  /\ Len(insights) = 2
  /\ insights[1].id = 1
  /\ \E i \in 1..Len(handlers) :
       /\ IsToolCall(handlers[i], "append_insight")
       /\ ~Appended(handlers[i])
       /\ Answered(handlers[i])

(***************************************************************************)
(* Further claims about the scanner, checked under SpecScan.               *)
(***************************************************************************)
\* the literal that begins at open stands whole in one emitted statement
LiteralStandsWhole(open) ==
  /\ StatementOf(open) # 0
  /\ \A p \in LiteralAt(setupSql, open) : StatementOf(p) = StatementOf(open)

\* C31: a quoted literal is closed only by the delimiter that opened it: a
\* quote character other than the opening one inside a literal is kept and
\* leaves the literal open, so the literal, with every ; after that quote
\* character, stands whole in one statement.
C31_OnlySameDelimiterCloses ==
  scanned =>
    \A k \in 1..Len(setupSql) :
      LET label == LabelsOf(setupSql)[k]
      IN (/\ label.in = "literal"
          /\ setupSql[k] \in QuoteCharacters \ {setupSql[label.open]}) =>
           /\ LiteralStandsWhole(label.open)
           /\ StatementOf(k) = StatementOf(label.open)
           /\ \A p \in (k + 1)..Len(setupSql) :
                (setupSql[p] = ";" /\ LabelsOf(setupSql)[p] = label) =>
                  StatementOf(p) = StatementOf(label.open)

\* a literal in single quotes holds a double quote and a ; and is one
\* statement
C31_Witness ==
  /\ scanned
  /\ setupSql = <<"'", "\"", ";", "'">>
  /\ Texts = <<setupSql>>

\* a comment marker begins at position k
MarkerAt(k) ==
  \/ Pair(setupSql, k, "-", "-")
  \/ Pair(setupSql, k, "/", "*")
  \/ Pair(setupSql, k, "*", "/")

\* C32: the comment markers --, /* and */ inside a quoted literal are kept
\* and neither start nor end a comment: the literal stands whole in one
\* statement, with the marker and the characters after it.
C32_MarkersInLiteral ==
  scanned =>
    \A k \in 1..Len(setupSql) :
      LET label == LabelsOf(setupSql)[k]
      IN (/\ label.in = "literal"
          /\ MarkerAt(k)
          /\ LabelsOf(setupSql)[k + 1] = label) =>
           /\ LiteralStandsWhole(label.open)
           /\ StatementOf(k) = StatementOf(label.open)
           /\ StatementOf(k + 1) = StatementOf(label.open)

\* a literal holds -- and a letter after it, and is one statement
C32_Witness ==
  /\ scanned
  /\ setupSql = <<"'", "-", "-", "a", "'">>
  /\ Texts = <<setupSql>>

\* the script with a blank in the place of every character of a comment
Blanked(s) == [k \in 1..Len(s) |-> IF InComment(LabelsOf(s)[k]) THEN " " ELSE s[k]]
\* a text without its white space
RECURSIVE Squeezed(_)
Squeezed(s) ==
  IF s = <<>> THEN <<>>
  ELSE IF isWhiteSpace(Head(s)) THEN Squeezed(Tail(s))
  ELSE <<Head(s)>> \o Squeezed(Tail(s))
SqueezedTexts(split) == [n \in 1..Len(split) |-> Squeezed(textOf(split[n]))]
\* a quote character lies inside a comment of the script
QuoteInComment ==
  \E k \in 1..Len(setupSql) :
    setupSql[k] \in QuoteCharacters /\ InComment(LabelsOf(setupSql)[k])

\* C35: a quote character inside a line comment or a block comment opens no
\* literal: the script is split into the statements that the script without
\* its comments is split into (white space aside), and the script with the
\* comment of setup.sql is split into its two statements.
C35_QuoteInCommentOpensNothing ==
  (scanned /\ QuoteInComment) =>
    /\ SqueezedTexts(statements) = SqueezedTexts(splitStatements(Blanked(setupSql)))
    /\ setupSql = sApostrophe =>
         Texts = << <<"S", "E", "L", "E", "C", "T", " ", "1", ";">>,
                    <<"S", "E", "L", "E", "C", "T", " ", "2", ";">> >>

\* the script with the apostrophe in its line comment has been split into
\* two statements
C35_Witness ==
  /\ scanned
  /\ setupSql = sApostrophe
  /\ QuoteInComment
  /\ Len(statements) = 2

(***************************************************************************)
(* A further claim about the validator, checked under SpecValidate.        *)
(***************************************************************************)
\* C33 as stated: a read query that references a table or a column named
\* updates (SELECT * FROM updates, SELECT updates FROM t) is rejected by the
\* validator.
C33_UpdatesRejected ==
  (vType = "select" /\ vQuery \in {Str(qSelectFromUpdates), Str(qSelectUpdatesFromT)}) =>
    ~vOutcome.ok

\* C33, amended: a read query that references a table or a column named
\* updates is accepted, because every entry of the blocklist ends with a
\* blank; a read query in which a name ends with a blocklisted word and a
\* blank follows it (SELECT last_update FROM t) is rejected with
\* InvalidParams.
C33_NameBeforeBlankRejected ==
  vType = "select" =>
    /\ vQuery \in {Str(qSelectFromUpdates), Str(qSelectUpdatesFromT)} => vOutcome.ok
    /\ vQuery = Str(qSelectLastUpdateFromT) =>
         (~vOutcome.ok /\ vOutcome.code = InvalidParams)

\* SELECT * FROM updates has passed the validator as a read query
C33_Witness ==
  /\ vType = "select"
  /\ vQuery = Str(qSelectFromUpdates)
  /\ vOutcome.ok

(***************************************************************************)
(* Further claims about the server, checked under Spec.                    *)
(***************************************************************************)
\* C34: the dispatcher never retries: a request has at most one statement
\* at the gateway, one that has settled, fulfilled or rejected, is not
\* executed again, and append_insight calls and rejected requests (answered
\* ParseError, MethodNotFound or InvalidParams) have none.
C34_NoRetry ==
  \A i \in 1..Len(handlers) :
    LET h == handlers[i]
    IN /\ Len(h.calls) <= 1
       /\ Len(h.answers) <= Len(h.calls)
       /\ h.pc = "query" <=> (Len(h.calls) = 1 /\ h.answers = <<>>)
       /\ IsToolCall(h, "append_insight") => h.calls = <<>>
       /\ (\E code \in {ParseError, MethodNotFound, InvalidParams} :
             AnsweredWithError(h, code)) => h.calls = <<>>

\* the one statement of a read_query failed at the gateway, and the request
\* was answered InternalError without another execution
C34_Witness ==
  \E i \in 1..Len(handlers) :
    /\ IsToolCall(handlers[i], "read_query")
    /\ Len(handlers[i].calls) = 1
    /\ Len(handlers[i].answers) = 1
    /\ ~handlers[i].answers[1].ok
    /\ AnsweredWithError(handlers[i], InternalError)

\* C36: for every inbound line whose handling has completed exactly one
\* response has been written, for blank lines, unparsable lines and requests
\* that fail too; while the handling is under way none has.
C36_ExactlyOneResponse ==
  \A i \in 1..Len(handlers) :
    /\ Answered(handlers[i]) => Len(handlers[i].written) = 1
    /\ ~Answered(handlers[i]) => handlers[i].written = <<>>

\* a blank line and a request with an unknown method have each been answered
\* once
C36_Witness ==
  \E i, j \in 1..Len(handlers) :
    /\ handlers[i].line = BlankLine
    /\ Answered(handlers[i]) /\ Len(handlers[i].written) = 1
    /\ Parsed(handlers[j]) /\ Answered(handlers[j])
    /\ AnsweredWithError(handlers[j], MethodNotFound)

\* of two append_insight requests that are being handled, the one that
\* arrived first has the smaller identifier
AppendsInArrivalOrder ==
  \A i, j \in 1..Len(handlers) :
    (i < j /\ Appended(handlers[i]) /\ Appended(handlers[j])) =>
      handlers[i].stored < handlers[j].stored
\* the step that handles an append_insight request gives it an identifier
\* greater than that of every insight appended before
AppendAfterEarlier ==
  \A line \in inputs :
    (OnLine(line) /\ Appended(handlers'[Len(handlers')])) =>
      /\ \A k \in 1..Len(insights) : insights[k].id < handlers'[Len(handlers')].stored
      /\ insights'[Len(insights')].id = handlers'[Len(handlers')].stored

\* C37: insights are stored in the arrival order of their append_insight
\* requests: a request read before another gets the smaller identifier,
\* also while gateway requests that arrived earlier are pending.
C37_ArrivalOrder ==
  []AppendsInArrivalOrder /\ [][AppendAfterEarlier]_vars

\* the second insight was appended while a gateway request that arrived
\* before its request is pending
C37_Witness ==
  /\ Len(handlers) = 2
  /\ handlers[1].pc = "query"
  /\ Appended(handlers[2])
  /\ handlers[2].stored = 2
  /\ Len(insights) = 2
  /\ insights[1].id < insights[2].id

(***************************************************************************)
(* The claim about the startup and the requests, checked under SpecRun.    *)
(***************************************************************************)
\* C38: no inbound request is handled, and no statement of a tool reaches
\* the gateway, before the database initialisation and the whole migration
\* have finished: a line is handled only after run() has resumed, and a
\* migration statement is submitted only before that, when no request has
\* been handled.
C38_StartupBeforeRequests ==
  /\ [](handlers # <<>> => (startup = "done" /\ phase = "serving"))
  /\ [][/\ handlers' # handlers => startup = "done"
        /\ submitted' # submitted => (startup # "done" /\ handlers = <<>> /\ handlers' = <<>>)]_vars

\* a migration statement was submitted, and after the startup a statement
\* of a request is at the gateway
C38_Witness ==
  /\ startup = "done"
  /\ Len(submitted) = 1
  /\ \E i \in 1..Len(handlers) : handlers[i].pc = "query" /\ Len(handlers[i].calls) = 1

(***************************************************************************)
(* The claim about parsed lines, checked under Spec.                       *)
(***************************************************************************)
\* C39: a ParseError response is produced only for lines that are not valid
\* JSON: every line that parses, non-object values and objects without a
\* method included, is answered with a response whose error code is not
\* ParseError and whose id is "unknown" only if the request carried that id.
C39_ParseErrorOnlyForInvalidJson ==
  \A i \in 1..Len(handlers) :
    LET h == handlers[i]
    IN (Parsed(h) /\ Answered(h)) =>
         /\ Len(h.written) = 1
         /\ ~(h.written[1].error.present /\ h.written[1].error.code = ParseError)
         /\ h.written[1].id = AStr("unknown") =>
              (RequestOf(h).ty = "object" /\ RequestOf(h).id = AStr("unknown"))

====
